---- MODULE Spec2Model ----
(***************************************************************************)
(* Model of the dataset / batching engine of rtg/data/dataset.py:          *)
(* Batch (BOS/EOS enforcement and padded matrices), BatchIterable (the     *)
(* sequential token-budget bucketing of read_all and the equal-length      *)
(* randomized bucketing), the id-list random access of the two stores and  *)
(* LoopingIterable.                                                        *)
(***************************************************************************)
EXTENDS Integers, Sequences, FiniteSets, TLC

(***************************************************************************)
(* Bounds of the model.                                                    *)
(***************************************************************************)
MaxRecs == 3
MaxSeqLen == 2
MaxBudget == 4
MaxPasses == 2
MaxReq == 2
MaxTotal == 4
MaxK == 2
MaxIters == 2
MaxBuildRecs == 2
MaxBuilds == 2
MaxCtorRecs == 2
MaxWrite == 2
MaxStream == 3
MaxLines == 3
MaxRewrites == 1

(***************************************************************************)
(* Values of the Field the Batch is built with (field.pad_idx,             *)
(* field.bos_idx, field.eos_idx).  The Field is the caller's; the values   *)
(* taken here are none of the tokens 1..7 of the specification's example.  *)
(***************************************************************************)
PadVal == 0
BosVal == 8
EosVal == 9

\* The default of max_src_len and of max_tgt_len.
DefaultMaxLen == 512

Max(a, b) == IF a >= b THEN a ELSE b
Min(a, b) == IF a <= b THEN a ELSE b

\* The largest element of a non-empty sequence of naturals.
RECURSIVE SeqMax(_)
SeqMax(s) == IF Len(s) = 1 THEN s[1] ELSE Max(s[1], SeqMax(Tail(s)))

\* An ordinary token sequence of length n (no BOS, no EOS, no padding value).
Words(n) == [i \in 1..n |-> 5]

\* The token sequences a record side is drawn from: ordinary words of every
\* length up to MaxSeqLen, and the longest word with the EOS value already at
\* its end.
SeqPool ==
    {Words(n) : n \in 0..MaxSeqLen} \cup {Append(Words(MaxSeqLen - 1), EosVal)}

\* The record lists of up to n records (x, y) with sides from pool, the id of
\* a record being its position in the store.
RECURSIVE StoreLists(_, _)
StoreLists(n, pool) ==
    IF n = 0 THEN {<<>>}
    ELSE LET shorter == StoreLists(n - 1, pool)
         IN  shorter \cup
               {Append(d, [id |-> Len(d) + 1, x |-> xs, y |-> ys]) :
                  d \in {s \in shorter : Len(s) = n - 1},
                  xs \in pool, ys \in pool}

\* The permutations of 1..n, as sequences.
Perms(n) == {f \in [1..n -> 1..n] : \A i, j \in 1..n : f[i] = f[j] => i = j}

\* The absent target side of a record (y is None): a value that no token
\* list equals.
None == <<-1>>

(***************************************************************************)
(* Batch.bos_eos_check for one sequence: [ok, err, seq].  seq[0] and       *)
(* seq[-1] of an empty list raise IndexError, of None TypeError; a failed  *)
(* assert raises AssertionError.                                           *)
(***************************************************************************)
\* bos = False is not asserted.
BosStepUnchecked(seq, bos) ==
    IF seq = None THEN [ok |-> FALSE, err |-> "TypeError", seq |-> seq]
    ELSE IF Len(seq) = 0 THEN [ok |-> FALSE, err |-> "IndexError", seq |-> seq]
    ELSE [ok |-> TRUE, err |-> "none",
          seq |-> IF bos /\ seq[1] # BosVal THEN <<BosVal>> \o seq ELSE seq]

BosStep(seq, bos) ==
    IF seq = None THEN [ok |-> FALSE, err |-> "TypeError", seq |-> seq]
    ELSE IF Len(seq) = 0 THEN [ok |-> FALSE, err |-> "IndexError", seq |-> seq]
    ELSE IF bos
         THEN [ok |-> TRUE, err |-> "none",
               seq |-> IF seq[1] = BosVal THEN seq ELSE <<BosVal>> \o seq]
         ELSE [ok |-> seq[1] # BosVal,
               err |-> IF seq[1] # BosVal THEN "none" ELSE "AssertionError",
               seq |-> seq]

\* EOS is appended without looking at the last element.
EosAppendAlways(seq) == Append(seq, EosVal)

EosAppend(seq) == IF seq[Len(seq)] = EosVal THEN seq ELSE Append(seq, EosVal)

EosStep(seq, eos) ==
    IF Len(seq) = 0 THEN [ok |-> FALSE, err |-> "IndexError", seq |-> seq]
    ELSE IF eos
         THEN [ok |-> TRUE, err |-> "none", seq |-> EosAppend(seq)]
         ELSE [ok |-> seq[Len(seq)] # EosVal,
               err |-> IF seq[Len(seq)] # EosVal THEN "none" ELSE "AssertionError",
               seq |-> seq]

bos_eos_seq(seq, bos, eos) ==
    LET b == BosStep(seq, bos)
    IN  IF ~b.ok THEN b ELSE EosStep(b.seq, eos)

\* bos_eos_check over the batch, in order; the records before a failing one
\* keep their in-place insertions.
RECURSIVE bos_eos_check(_, _, _, _, _)
bos_eos_check(recs, i, side, bos, eos) ==
    IF i > Len(recs) THEN [ok |-> TRUE, err |-> "none", recs |-> recs]
    ELSE LET r == bos_eos_seq(IF side = "x" THEN recs[i].x ELSE recs[i].y, bos, eos)
             upd == IF side = "x" THEN [recs EXCEPT ![i].x = r.seq]
                                  ELSE [recs EXCEPT ![i].y = r.seq]
         IN  IF ~r.ok THEN [ok |-> FALSE, err |-> r.err, recs |-> upd]
             ELSE bos_eos_check(upd, i + 1, side, bos, eos)

\* A row with the padding before the sequence.
PadRowRight(seq, width) == [i \in 1..(width - Len(seq)) |-> PadVal] \o seq

\* One row of a padded matrix: the sequence, then the padding value.
PadRow(seq, width) == seq \o [i \in 1..(width - Len(seq)) |-> PadVal]

PadMatrix(seqs) ==
    LET width == SeqMax([i \in 1..Len(seqs) |-> Len(seqs[i])])
    IN  [i \in 1..Len(seqs) |-> PadRow(seqs[i], width)]

\* tensor.t(): the matrix of a non-empty batch, transposed.
Transpose(m) ==
    IF Len(m) = 0 THEN m
    ELSE [c \in 1..Len(m[1]) |-> [r \in 1..Len(m) |-> m[r][c]]]

\* Stable sort of the batch by descending len(x): insertion of each record
\* after the records that are at least as long.
RECURSIVE SortDec(_)
SortDec(recs) ==
    IF Len(recs) <= 1 THEN recs
    ELSE LET rest == SortDec(SubSeq(recs, 1, Len(recs) - 1))
             last == recs[Len(recs)]
             keep == Cardinality({i \in 1..Len(rest) : Len(rest[i].x) >= Len(last.x)})
         IN  SubSeq(rest, 1, keep) \o <<last>> \o SubSeq(rest, keep + 1, Len(rest))

\* The records of the caller's list after the Batch changed the objects in
\* rows (the same objects, in the order the Batch put them).
SameObjects(recs, rows) ==
    [p \in 1..Len(recs) |->
        rows[CHOOSE i \in 1..Len(rows) : rows[i].id = recs[p].id]]

(***************************************************************************)
(* Batch.__init__: [ok, err, recs (the caller's records after the in-place *)
(* insertions), has_y, x_len, x_seqs, y_len, y_seqs].  The x side is       *)
(* checked first; the list is then sorted if asked; has_y is read from the *)
(* first record and the y side is checked and built only then.  An empty   *)
(* batch raises (max of an empty tensor).                                  *)
(***************************************************************************)
BatchInit(recs, sort_dec, batch_first, bos_x, eos_x, bos_y, eos_y) ==
    LET cx == bos_eos_check(recs, 1, "x", bos_x, eos_x)
        fail(e, rs) == [ok |-> FALSE, err |-> e, recs |-> rs, has_y |-> FALSE,
                        x_len |-> <<>>, x_seqs |-> <<>>,
                        y_len |-> <<>>, y_seqs |-> <<>>]
        orient(m) == IF batch_first THEN m ELSE Transpose(m)
    IN  IF ~cx.ok THEN fail(cx.err, cx.recs)
        ELSE IF Len(recs) = 0 THEN fail("RuntimeError", recs)
        ELSE LET rows == IF sort_dec THEN SortDec(cx.recs) ELSE cx.recs
                 x_len == [i \in 1..Len(rows) |-> Len(rows[i].x)]
                 x_seqs == orient(PadMatrix([i \in 1..Len(rows) |-> rows[i].x]))
             IN  IF rows[1].y = None
                 THEN [ok |-> TRUE, err |-> "none", recs |-> cx.recs, has_y |-> FALSE,
                       x_len |-> x_len, x_seqs |-> x_seqs,
                       y_len |-> <<>>, y_seqs |-> <<>>]
                 ELSE LET cy == bos_eos_check(rows, 1, "y", bos_y, eos_y)
                      IN  IF ~cy.ok THEN fail(cy.err, SameObjects(recs, cy.recs))
                          ELSE [ok |-> TRUE, err |-> "none",
                                recs |-> SameObjects(recs, cy.recs), has_y |-> TRUE,
                                x_len |-> x_len, x_seqs |-> x_seqs,
                                y_len |-> [i \in 1..Len(rows) |-> Len(cy.recs[i].y)],
                                y_seqs |-> orient(PadMatrix(
                                    [i \in 1..Len(rows) |-> cy.recs[i].y]))]

\* [rows, columns] of a batch-major matrix.
Shape(m) == <<Len(m), Len(m[1])>>

(***************************************************************************)
(* State of a BatchIterable.                                               *)
(*   data         the records of the store, in the order a pass delivers   *)
(*                them (for the indexed store: the rows, in id order)      *)
(*   keep_in_mem  the store is wrapped in an InMemoryData: the records of  *)
(*                a pass are the objects of InMemoryData.data, so the      *)
(*                in-place insertions of a Batch stay in them; otherwise   *)
(*                every pass decodes fresh records                         *)
(*   batch_size   the token budget                                         *)
(*   sort_by      "seq": __iter__ runs read_all; "eq_len_rand_batch": it   *)
(*                runs make_eq_len_ran_batches                             *)
(*   bpc          where the generator of the pass is                       *)
(*   pos, batch, max_len   locals of the suspended read_all; pos is also   *)
(*                the index of the next bucket of make_eq_len_ran_batches  *)
(*   buckets      the local batches of make_eq_len_ran_batches, shuffled   *)
(*   computed     what _make_eq_len_batch_ids returned                     *)
(*   orig         the records as they were when the pass started           *)
(*   out          the batches this pass has yielded                        *)
(*   prev         the pass before this one: done (it ran to its end) and   *)
(*                out, the batches a pass of read_all that ran to its end  *)
(*                yielded                                                  *)
(*   err          the exception that ended the pass                        *)
(***************************************************************************)
VARIABLES data, keep_in_mem, batch_size, sort_by, bpc, pos, batch, max_len,
          buckets, computed, orig, out, prev, err, passNo

bvars == <<data, keep_in_mem, batch_size, sort_by, bpc, pos, batch, max_len,
           buckets, computed, orig, out, prev, err, passNo>>

(***************************************************************************)
(* State of a random access by id list on the store (data, keep_in_mem).   *)
(*   ipc   "idle": no request; "ask": req is to be looked up; "answered"   *)
(*   req   the id list asked for                                           *)
(*   res   what the caller gets from list(get_all_ids(req)): [ok, recs]    *)
(***************************************************************************)
VARIABLES ipc, req, res

ivars == <<ipc, req, res>>

(***************************************************************************)
(* State of a LoopingIterable over a source of per_pass batches per pass.  *)
(*   total, count   the fields of the object                               *)
(*   lpc     where the generator of __iter__ is: "idle" (there is none),   *)
(*           "while" (at the test of the while), "for" (at the for, asking *)
(*           the pass of the source for its next batch), "yield"           *)
(*           (suspended at the yield, the batch is with the consumer),     *)
(*           "done" (returned)                                             *)
(*   npass   passes of the source started so far (counted up to           *)
(*           MaxTotal + 1)                                                 *)
(*   taken   batches taken from the current pass of the source             *)
(*   emitted the batches this iteration has yielded, as <<pass, index>>    *)
(*   handed  batches handed to the consumer, over all iterations           *)
(*   iters   iterations started                                            *)
(***************************************************************************)
VARIABLES total, count, per_pass, lpc, npass, taken, emitted, handed, iters

lvars == <<total, count, per_pass, lpc, npass, taken, emitted, handed, iters>>

(***************************************************************************)
(* The arguments of BatchIterable.__init__ and the file they name.         *)
(*   backend      "db": data_path.name ends with ".db" (SqliteFile);       *)
(*                "tsv": any other name (TSVData)                          *)
(*   sort_by_arg  the sort_by argument ("None" stands for None)            *)
(*   path_exists  data_path.exists()                                       *)
(*   shuffle_arg  the shuffle argument, handed to TSVData                  *)
(*   memdb        the file data_path.with_suffix(".memdb.pkl"): exists, *)
(*                and recs, the record list of the InMemoryData pickled    *)
(*                in it                                                    *)
(* bpc = "new" before __init__ ran and "rejected" when it raised.          *)
(***************************************************************************)
VARIABLES backend, sort_by_arg, path_exists, shuffle_arg, memdb

cvars == <<backend, sort_by_arg, path_exists, shuffle_arg, memdb>>

(***************************************************************************)
(* A caller of Batch.__init__ with its own record list.                    *)
(*   brecs   the caller's records (the Batch changes them in place)        *)
(*   bcfg    the arguments: sort_dec, batch_first, add_bos_x, add_eos_x,   *)
(*           add_bos_y, add_eos_y                                          *)
(*   bres    what the last Batch(brecs, ...) gave (BatchInit)              *)
(*   bprev   brecs as they were before the last Batch was built            *)
(*   builds  Batches built from brecs so far                               *)
(***************************************************************************)
VARIABLES brecs, bcfg, bres, bprev, builds

kvars == <<brecs, bcfg, bres, bprev, builds>>

(***************************************************************************)
(* SqliteFile.write(path, records) and a later read of the store at path.  *)
(*   wrecs      the (x, y) pairs the records iterator delivers             *)
(*   old_rows   the rows of the store that was at path before the write    *)
(*   path_file  the file at path: [exists, table, rows] (committed rows)   *)
(*   tmp_file   the file at maybe_tmp when that is another path            *)
(*   use_tmp    IO.maybe_tmpfs(path) returned another path                 *)
(*   pending    the rows inserted and not yet committed                    *)
(*   wpc        where write is: "idle", "remove", "connect", "create",     *)
(*              "insert", "commit", "copy", "done", "interrupted"          *)
(*   rcfg       max_src_len, max_tgt_len (one value) and truncate of the   *)
(*              SqliteFile that reads                                      *)
(*   rd         list(SqliteFile(path)): [ok, err, recs]                    *)
(*   rpc        "idle", "read"                                             *)
(***************************************************************************)
VARIABLES wrecs, old_rows, path_file, tmp_file, use_tmp, pending, wpc, rcfg, rd, rpc

svars == <<wrecs, old_rows, path_file, tmp_file, use_tmp, pending, wpc, rcfg, rd, rpc>>

(***************************************************************************)
(* InMemoryData(stream).                                                   *)
(*   stream  the records the stream delivers                               *)
(*   mres    the object after __init__: [ok, data, ids], ids the id map    *)
(*           as a list of <<id, index>>, index counted from 0              *)
(*   mpc     "idle", "new", "loaded", "failed"                             *)
(***************************************************************************)
VARIABLES stream, mres, mpc

mvars == <<stream, mres, mpc>>

(***************************************************************************)
(* A TSVData over a file.                                                  *)
(*   tlines   the lines of the file: [x, y] with the tokens of the first   *)
(*            field and of the second field, None when the line has no tab *)
(*   tcfg     in_mem, shuffle, longest_first, truncate, max_len (the value *)
(*            of max_src_len and of max_tgt_len)                           *)
(*   mem      self.mem (<<>> also when it is None)                         *)
(*   tpc      "idle", "new", "ready" (constructed), "failed"               *)
(*   terr     the exception of __init__ or of the last pass                *)
(*   tpasses  the generators of __iter__ that were started, in the order   *)
(*            of their first next(): state ("run" suspended at the yield,  *)
(*            "done", "failed"), ok and err (the exception), recs (what    *)
(*            was yielded so far), shuffled (self.mem after the shuffle of *)
(*            its start), src ("mem": it yields from a list, "file": from  *)
(*            read_all), lst (that list), alias (that list is the object   *)
(*            self.mem), pos (the next index of the list; for a file, the  *)
(*            next line of flines), flines (the lines its reader has got   *)
(*            from the file so far, those still in its buffer included),   *)
(*            off (the offset of its file handle, in characters)           *)
(*   read_counter   self.read_counter                                      *)
(*   len_     self._len, what __len__ reports                              *)
(*   twrites  how often the file was rewritten after construction          *)
(***************************************************************************)
VARIABLES tlines, tcfg, mem, tpc, terr, tpasses, read_counter, len_, twrites

tvars == <<tlines, tcfg, mem, tpc, terr, tpasses, read_counter, len_, twrites>>

(***************************************************************************)
(* Preprocessing of two raw corpus files for SqliteFile.write.             *)
(*   src_lines, tgt_lines   the lines of the two files, stripped: each the *)
(*            list of its words                                            *)
(*   pkind    "pool": read_raw_parallel_recs_parallel; "lazy":             *)
(*            read_raw_parallel_recs                                       *)
(*   pcfg     truncate, src_len, tgt_len                                   *)
(*   ppc      "idle", "new", "stream" (the writer pulls records), "done",  *)
(*            "failed"                                                     *)
(*   precs    the records pool.map returned (pool)                         *)
(*   ppos     the next line pair (lazy) or the next record of precs (pool) *)
(*   written  the records handed to the store writer so far                *)
(*   perr     the exception that ended the preprocessing                   *)
(***************************************************************************)
VARIABLES src_lines, tgt_lines, pkind, pcfg, ppc, precs, ppos, written, perr

pvars == <<src_lines, tgt_lines, pkind, pcfg, ppc, precs, ppos, written, perr>>

(***************************************************************************)
(* A BatchIterable over an indexed store (SqliteFile, not kept in memory). *)
(*   db_rows  the rows of the table data, in id order                      *)
(*   db_cfg   max_len (the value of max_src_len and of max_tgt_len) and    *)
(*            truncate of the SqliteFile                                   *)
(*   qrows    the rows in the order select_qry delivers them in the        *)
(*            current pass of read_all                                     *)
(* data holds the records SqliteFile.__iter__ delivers in that pass before *)
(* it ends or raises (read_all), or the rows as get_all and get_all_ids    *)
(* see them (make_eq_len_ran_batches).                                     *)
(***************************************************************************)
VARIABLES db_rows, db_cfg, qrows

xvars == <<db_rows, db_cfg, qrows>>

nvars == <<cvars, kvars, svars, mvars, tvars, pvars, xvars>>

vars == <<bvars, ivars, lvars, nvars>>

\* Defaults of BatchIterable.__init__ and of Batch.__init__.
sort_desc == FALSE
batch_first == TRUE
add_bos_x == FALSE
add_eos_x == TRUE
add_bos_y == FALSE
add_eos_y == TRUE

\* The admission rule with the budget itself out of reach.
FitsStrictly(len_batch, cur_max, this_len, budget) ==
    (len_batch + 1) * Max(cur_max, this_len) < budget

\* The admission rule without the candidate counted.
FitsUncounted(len_batch, cur_max, this_len, budget) ==
    len_batch * Max(cur_max, this_len) <= budget

\* The admission rule of both bucketing strategies.
Fits(len_batch, cur_max, this_len, budget) ==
    (len_batch + 1) * Max(cur_max, this_len) <= budget

\* A record alone exceeds the budget by two or more.
OverflowsLate(this_len, budget) == this_len > budget + 1

\* A record alone exceeds the budget.
Overflows(this_len, budget) == this_len > budget

\* The trailing batch is never flushed.
NoTrailingBatch(b) == FALSE

\* The trailing partial batch is flushed when it has records ("if batch:").
TrailingBatch(b) == Len(b) > 0

\* A record with an empty side is skipped.
IsEmptyRec(x_len, y_len) == Min(x_len, y_len) = 0

ThisLen(x_len, y_len) == Max(x_len, y_len)

(***************************************************************************)
(* BatchIterable.read_all from record p on, with the current batch b (a    *)
(* list of [ix, len]: position in the store and length at admission) and   *)
(* running maximum m, up to the next yield, raise or end of the stream.    *)
(***************************************************************************)
RECURSIVE read_all(_, _, _, _, _)
read_all(d, budget, p, b, m) ==
    IF p > Len(d)
    THEN IF TrailingBatch(b)
         THEN [kind |-> "tail", flush |-> b, pos |-> p, batch |-> b, max_len |-> m]
         ELSE [kind |-> "stop", flush |-> <<>>, pos |-> p, batch |-> b, max_len |-> m]
    ELSE LET x_len == Len(d[p].x)
             y_len == Len(d[p].y)
             this_len == ThisLen(x_len, y_len)
         IN  IF IsEmptyRec(x_len, y_len) THEN read_all(d, budget, p + 1, b, m)
             ELSE IF Fits(Len(b), m, this_len, budget)
                  THEN read_all(d, budget, p + 1,
                                Append(b, [ix |-> p, len |-> this_len]),
                                Max(m, this_len))
                  ELSE IF Overflows(this_len, budget)
                       THEN [kind |-> "raise", flush |-> <<>>, pos |-> p,
                             batch |-> b, max_len |-> m]
                       ELSE [kind |-> "yield", flush |-> b, pos |-> p + 1,
                             batch |-> <<[ix |-> p, len |-> this_len]>>,
                             max_len |-> this_len]

\* The columns x_len and y_len of the row of a record: len(x_seq), and
\* len(y_seq) or -1 when the record has no y.
x_len_col(r) == Len(r.x)

y_len_col(r) == IF r.y # None THEN Len(r.y) ELSE -1

(***************************************************************************)
(* get_all(cols=[id, x_len, y_len], sort='y_len desc'): the orders in      *)
(* which the rows can come.  InMemoryData sorts stably; the indexed store  *)
(* breaks the ties by random().                                            *)
(***************************************************************************)
get_all(d, in_mem) ==
    {ord \in Perms(Len(d)) :
        \A i, j \in 1..Len(d) :
            (i < j) =>
                /\ y_len_col(d[ord[i]]) >= y_len_col(d[ord[j]])
                /\ (in_mem /\ y_len_col(d[ord[i]]) = y_len_col(d[ord[j]])) =>
                       (ord[i] < ord[j])}

(***************************************************************************)
(* BatchIterable._make_eq_len_batch_ids over the rows in the order ord,    *)
(* from row i on: [ok, batches], ok false when a row overflows the budget. *)
(***************************************************************************)
RECURSIVE make_eq_len_batch_ids(_, _, _, _, _, _, _)
make_eq_len_batch_ids(d, ord, budget, i, b, m, acc) ==
    IF i > Len(ord)
    THEN [ok |-> TRUE, batches |-> IF Len(b) > 0 THEN Append(acc, b) ELSE acc]
    ELSE LET x_len == x_len_col(d[ord[i]])
             y_len == y_len_col(d[ord[i]])
             this_len == ThisLen(x_len, y_len)
             entry == [ix |-> d[ord[i]].id, len |-> this_len]
         IN  IF IsEmptyRec(x_len, y_len)
             THEN make_eq_len_batch_ids(d, ord, budget, i + 1, b, m, acc)
             ELSE IF Fits(Len(b), m, this_len, budget)
                  THEN make_eq_len_batch_ids(d, ord, budget, i + 1,
                                             Append(b, entry), Max(m, this_len), acc)
                  ELSE IF Overflows(this_len, budget)
                       THEN [ok |-> FALSE, batches |-> acc]
                       ELSE make_eq_len_batch_ids(d, ord, budget, i + 1,
                                                  <<entry>>, this_len, Append(acc, b))

\* random.shuffle(batches): any order of the same buckets.
Shuffles(batches) ==
    {[i \in 1..Len(batches) |-> batches[f[i]]] : f \in Perms(Len(batches))}

(***************************************************************************)
(* Random access by an id list: [ok, recs].                                *)
(* SqliteFile.get_all_ids selects the rows WHERE id IN (ids), which come   *)
(* in id order; InMemoryData.get_all_ids looks each id up in the id map,   *)
(* in the order asked, and a missing key raises.                           *)
(***************************************************************************)
HasId(d, id) == \E p \in 1..Len(d) : d[p].id = id

ById(d, id) == d[CHOOSE p \in 1..Len(d) : d[p].id = id]

InList(ids, id) == \E i \in 1..Len(ids) : ids[i] = id

\* Only the row of the first id asked for is selected.
SqliteFile_get_first_id(d, ids) ==
    [ok |-> TRUE, recs |-> SelectSeq(d, LAMBDA r : Len(ids) > 0 /\ r.id = ids[1])]

SqliteFile_get_all_ids(d, ids) ==
    [ok |-> TRUE, recs |-> SelectSeq(d, LAMBDA r : InList(ids, r.id))]

InMemoryData_get_all_ids(d, ids) ==
    IF \A i \in 1..Len(ids) : HasId(d, ids[i])
    THEN [ok |-> TRUE, recs |-> [i \in 1..Len(ids) |-> ById(d, ids[i])]]
    ELSE [ok |-> FALSE, recs |-> <<>>]

get_all_ids(d, ids, in_mem) ==
    IF in_mem THEN InMemoryData_get_all_ids(d, ids) ELSE SqliteFile_get_all_ids(d, ids)

\* The Batch a BatchIterable builds from a list of records.
Build(recs) ==
    BatchInit(recs, sort_desc, batch_first, add_bos_x, add_eos_x, add_bos_y, add_eos_y)

\* The records of a pass are objects the store holds: those of InMemoryData,
\* or those of self.mem of a TSVData with shuffle (in_mem or shuffle or
\* longest_first, BatchIterable passes longest_first=False).  Any other store
\* decodes fresh records in every pass.
HoldsRecords == keep_in_mem \/ (backend = "tsv" /\ shuffle_arg)

\* The order of the records is drawn anew in every pass: select_qry of a
\* SqliteFile orders by RANDOM() (READ_RANDOM) or by a length column plus
\* RANDOM() % len_rand, which ties the lengths of the model; a TSVData with
\* shuffle shuffles self.mem.  InMemoryData replays its list.
DrawsOrder(by) ==
    /\ ~keep_in_mem
    /\ \/ backend = "db" /\ by = "seq"
       \/ backend = "tsv" /\ shuffle_arg

\* The orders in which a pass can get the records d.
PassOrders(d, draws) ==
    IF draws THEN {[i \in 1..Len(d) |-> d[f[i]]] : f \in Perms(Len(d))} ELSE {d}

\* The store after a Batch was built from recs: the records of an in-memory
\* store are the objects the Batch changed.
WriteBack(d, recs, in_mem) ==
    IF in_mem
    THEN [p \in 1..Len(d) |->
            IF \E i \in 1..Len(recs) : recs[i].id = d[p].id
            THEN recs[CHOOSE i \in 1..Len(recs) : recs[i].id = d[p].id]
            ELSE d[p]]
    ELSE d

\* What a pass records of a yielded batch: the ids of its records, their
\* lengths at admission, and the matrices built.
Yielded(recs, flush, built) ==
    [ids |-> [i \in 1..Len(recs) |-> recs[i].id],
     lens |-> [i \in 1..Len(flush) |-> flush[i].len],
     x_seqs |-> built.x_seqs, y_seqs |-> built.y_seqs]

\* The records of the specification's example scenario.
ExampleStore ==
    << [id |-> 1, x |-> <<5, 6>>, y |-> <<7>>],
       [id |-> 2, x |-> <<1>>, y |-> <<2, 3, 4>>] >>

\* The stores and budgets of the model.  The streams that InMemoryData
\* materializes (TSVData.read_all, SqliteFile.__iter__) have dropped the
\* records with an empty side; the rows of an indexed store can have one.
\* No pass has started.
InitPass ==
    /\ orig = data
    /\ bpc = "start"
    /\ pos = 1
    /\ batch = <<>>
    /\ max_len = 0
    /\ buckets = <<>>
    /\ computed = <<>>
    /\ out = <<>>
    /\ prev = [done |-> FALSE, out |-> <<>>]
    /\ err = "none"
    /\ passNo = 1

\* There is no request for random access.
IdsIdle ==
    /\ ipc = "idle"
    /\ req = <<>>
    /\ res = [ok |-> TRUE, recs |-> <<>>]

\* There is no LoopingIterable.
LoopIdle ==
    /\ total = 0
    /\ count = 0
    /\ per_pass = 0
    /\ lpc = "idle"
    /\ npass = 0
    /\ taken = 0
    /\ emitted = <<>>
    /\ handed = 0
    /\ iters = 0

\* The BatchIterable was constructed over an indexed store.
CtorIdle ==
    /\ backend = "db"
    /\ sort_by_arg = "None"
    /\ path_exists = TRUE
    /\ shuffle_arg = FALSE
    /\ memdb = [exists |-> FALSE, recs |-> <<>>]

\* No Batch is built outside a BatchIterable.
BuildIdle ==
    /\ brecs = <<>>
    /\ bcfg = [sort_dec |-> FALSE, batch_first |-> TRUE,
               add_bos_x |-> FALSE, add_eos_x |-> TRUE,
               add_bos_y |-> FALSE, add_eos_y |-> TRUE]
    /\ bres = [ok |-> TRUE]
    /\ bprev = <<>>
    /\ builds = 0

NoFile == [exists |-> FALSE, table |-> FALSE, rows |-> <<>>]

\* No store is written.
StoreIdle ==
    /\ wrecs = <<>>
    /\ old_rows = <<>>
    /\ path_file = NoFile
    /\ tmp_file = NoFile
    /\ use_tmp = FALSE
    /\ pending = <<>>
    /\ wpc = "idle"
    /\ rcfg = [max_len |-> 0, truncate |-> FALSE]
    /\ rd = [ok |-> TRUE, err |-> "none", recs |-> <<>>]
    /\ rpc = "idle"

\* No InMemoryData is constructed.
MemIdle ==
    /\ stream = <<>>
    /\ mres = [ok |-> TRUE, data |-> <<>>, ids |-> <<>>]
    /\ mpc = "idle"

\* There is no TSVData.
TsvIdle ==
    /\ tlines = <<>>
    /\ tcfg = [in_mem |-> FALSE, shuffle |-> FALSE, longest_first |-> FALSE,
               truncate |-> FALSE, max_len |-> 0]
    /\ mem = <<>>
    /\ tpc = "idle"
    /\ terr = "none"
    /\ tpasses = <<>>
    /\ read_counter = 0
    /\ len_ = 0
    /\ twrites = 0

\* No raw corpus is preprocessed.
PrepIdle ==
    /\ src_lines = <<>>
    /\ tgt_lines = <<>>
    /\ pkind = "pool"
    /\ pcfg = [truncate |-> FALSE, src_len |-> 0, tgt_len |-> 0]
    /\ ppc = "idle"
    /\ precs = <<>>
    /\ ppos = 1
    /\ written = <<>>
    /\ perr = "none"

\* There is no indexed store under a BatchIterable.
IdxIdle ==
    /\ db_rows = <<>>
    /\ db_cfg = [max_len |-> 0, truncate |-> FALSE]
    /\ qrows = <<>>

InitBatch ==
    /\ keep_in_mem \in BOOLEAN
    /\ sort_by \in {"seq", "eq_len_rand_batch"}
    /\ \/ /\ data \in StoreLists(MaxRecs,
                                 IF keep_in_mem THEN {q \in SeqPool : Len(q) > 0}
                                 ELSE SeqPool)
          /\ batch_size \in 1..MaxBudget
       \/ /\ data = ExampleStore
          /\ batch_size = 6
    /\ InitPass
    /\ IdsIdle
    /\ LoopIdle
    /\ IdxIdle /\ CtorIdle /\ BuildIdle /\ StoreIdle /\ MemIdle /\ TsvIdle /\ PrepIdle

(***************************************************************************)
(* One next() on the generator of read_all: the loop runs to the next      *)
(* yield (the Batch is built there), to the raise, or to the end.          *)
(***************************************************************************)
ReadAllNext ==
    /\ sort_by = "seq"
    /\ bpc \in {"start", "run"}
    /\ LET r == read_all(data, batch_size, pos, batch, max_len)
           recs == [i \in 1..Len(r.flush) |-> data[r.flush[i].ix]]
           built == Build(recs)
       IN  /\ pos' = r.pos
           /\ batch' = r.batch
           /\ max_len' = r.max_len
           /\ IF r.kind \in {"yield", "tail"}
              THEN /\ data' = WriteBack(data, built.recs, HoldsRecords)
                   /\ bpc' = IF ~built.ok THEN "error"
                             ELSE IF r.kind = "tail" THEN "tail" ELSE "run"
                   /\ err' = IF built.ok THEN "none" ELSE "Batch"
                   /\ out' = IF built.ok THEN Append(out, Yielded(recs, r.flush, built))
                             ELSE out
              ELSE /\ data' = data
                   /\ bpc' = IF r.kind = "raise" THEN "error" ELSE "done"
                   /\ err' = IF r.kind = "raise" THEN "overflow" ELSE "none"
                   /\ out' = out
    /\ UNCHANGED <<keep_in_mem, batch_size, sort_by, buckets, computed, orig, prev, passNo>>
    /\ UNCHANGED <<ivars, lvars, nvars>>

\* next() after the trailing batch: the generator returns.
ReadAllEnd ==
    /\ sort_by = "seq"
    /\ bpc = "tail"
    /\ bpc' = "done"
    /\ UNCHANGED <<data, keep_in_mem, batch_size, sort_by, pos, batch, max_len,
                   buckets, computed, orig, out, prev, err, passNo>>
    /\ UNCHANGED <<ivars, lvars, nvars>>

\* The body of the loop of make_eq_len_ran_batches for bucket i of bs.
EmitBucket(bs, i) ==
    LET ids == [n \in 1..Len(bs[i]) |-> bs[i][n].ix]
        got == get_all_ids(data, ids, keep_in_mem)
        built == Build(got.recs)
    IN  /\ pos' = i + 1
        /\ data' = WriteBack(data, built.recs, keep_in_mem)
        /\ IF got.ok /\ built.ok
           THEN /\ bpc' = "run"
                /\ err' = "none"
                /\ out' = Append(out, Yielded(got.recs, bs[i], built))
           ELSE /\ bpc' = "error"
                /\ err' = IF got.ok THEN "Batch" ELSE "KeyError"
                /\ out' = out

(***************************************************************************)
(* The first next() on the generator of make_eq_len_ran_batches: the       *)
(* buckets are computed and shuffled, and the first one is yielded.        *)
(***************************************************************************)
EqLenStart ==
    /\ sort_by = "eq_len_rand_batch"
    /\ bpc = "start"
    /\ \E ord \in get_all(data, keep_in_mem) :
         LET r == make_eq_len_batch_ids(data, ord, batch_size, 1, <<>>, 0, <<>>)
         IN  IF ~r.ok \/ Len(r.batches) = 0
             THEN /\ bpc' = "error"
                  /\ err' = IF r.ok THEN "nodata" ELSE "overflow"
                  /\ UNCHANGED <<data, pos, buckets, computed, out>>
             ELSE /\ computed' = r.batches
                  /\ \E sh \in Shuffles(r.batches) :
                       /\ buckets' = sh
                       /\ EmitBucket(sh, 1)
    /\ UNCHANGED <<keep_in_mem, batch_size, sort_by, batch, max_len, orig, prev, passNo>>
    /\ UNCHANGED <<ivars, lvars, nvars>>

\* A later next(): the next bucket, or the end of the pass.
EqLenNext ==
    /\ sort_by = "eq_len_rand_batch"
    /\ bpc = "run"
    /\ IF pos <= Len(buckets)
       THEN EmitBucket(buckets, pos)
       ELSE /\ bpc' = "done"
            /\ UNCHANGED <<data, pos, out, err>>
    /\ UNCHANGED <<keep_in_mem, batch_size, sort_by, batch, max_len, buckets,
                   computed, orig, prev, passNo>>
    /\ UNCHANGED <<ivars, lvars, nvars>>

\* iter() on the constructed BatchIterable, and the generator of the pass
\* before is not asked again: a new pass, after a pass that ran to its end,
\* after one that raised, or after one that was dropped at a yield or before
\* its first next().
NewPass ==
    /\ bpc \in {"start", "run", "tail", "done", "error"}
    /\ passNo < MaxPasses
    /\ passNo' = passNo + 1
    /\ data' \in PassOrders(data, DrawsOrder(sort_by))
    /\ orig' = data'
    /\ prev' = [done |-> bpc = "done",
                 out |-> IF sort_by = "seq" /\ bpc = "done" THEN out ELSE <<>>]
    /\ out' = <<>>
    /\ err' = "none"
    /\ pos' = 1
    /\ batch' = <<>>
    /\ max_len' = 0
    /\ buckets' = <<>>
    /\ computed' = <<>>
    /\ bpc' = "start"
    /\ UNCHANGED <<keep_in_mem, batch_size, sort_by>>
    /\ UNCHANGED <<ivars, lvars, nvars>>

Init == InitBatch

Next == ReadAllNext \/ ReadAllEnd \/ EqLenStart \/ EqLenNext \/ NewPass

Spec == Init /\ [][Next]_vars

(***************************************************************************)
(* Random access by an id list, as make_eq_len_ran_batches consumes it:    *)
(* list(self.data.get_all_ids(batch_ids)).                                 *)
(***************************************************************************)
\* The id lists of up to n ids out of ids.
RECURSIVE IdLists0(_, _)
IdLists0(n, ids) ==
    IF n = 0 THEN {<<>>}
    ELSE LET shorter == IdLists0(n - 1, ids)
         IN  shorter \cup {Append(q, id) : q \in {t \in shorter : Len(t) = n - 1},
                                            id \in ids}

InitIds ==
    /\ keep_in_mem \in BOOLEAN
    /\ sort_by = "eq_len_rand_batch"
    /\ data \in StoreLists(MaxRecs, {Words(1)})
    /\ batch_size = MaxBudget
    /\ InitPass
    /\ ipc = "ask"
    /\ req \in IdLists0(MaxReq, 1..(MaxRecs + 1))
    /\ res = [ok |-> TRUE, recs |-> <<>>]
    /\ LoopIdle
    /\ IdxIdle /\ CtorIdle /\ BuildIdle /\ StoreIdle /\ MemIdle /\ TsvIdle /\ PrepIdle

GetAllIds ==
    /\ ipc = "ask"
    /\ res' = get_all_ids(data, req, keep_in_mem)
    /\ ipc' = "answered"
    /\ UNCHANGED <<req, bvars, lvars, nvars>>

NextIds == GetAllIds

SpecIds == InitIds /\ [][NextIds]_vars

(***************************************************************************)
(* LoopingIterable.  The generator of __iter__ is followed step by step:   *)
(* the test of the while, the for asking the source for a batch, and the   *)
(* statements after the yield.                                             *)
(***************************************************************************)
\* The loop is left only when count has passed total.
BreakLate(c, t) == c > t

\* "if self.count >= self.total: break"
Break(c, t) == c >= t

\* "while self.count < self.total"
Continue(c, t) == c < t

InitLoop ==
    /\ total \in 0..MaxTotal
    /\ per_pass \in 0..MaxK
    /\ count = 0
    /\ lpc = "idle"
    /\ npass = 0
    /\ taken = 0
    /\ emitted = <<>>
    /\ handed = 0
    /\ iters = 0
    /\ keep_in_mem = FALSE
    /\ sort_by = "seq"
    /\ data = <<>>
    /\ batch_size = MaxBudget
    /\ InitPass
    /\ IdsIdle
    /\ IdxIdle /\ CtorIdle /\ BuildIdle /\ StoreIdle /\ MemIdle /\ TsvIdle /\ PrepIdle

\* iter() on the LoopingIterable: a new generator.
LoopIter ==
    /\ lpc \in {"idle", "done"}
    /\ iters < MaxIters
    /\ iters' = iters + 1
    /\ lpc' = "while"
    /\ emitted' = <<>>
    /\ UNCHANGED <<total, count, per_pass, npass, taken, handed, bvars, ivars, nvars>>

\* The test of the while: a new pass of the source, or the end.
LoopWhile ==
    /\ lpc = "while"
    /\ IF Continue(count, total)
       THEN /\ lpc' = "for"
            /\ npass' = IF npass <= MaxTotal THEN npass + 1 ELSE npass
            /\ taken' = 0
       ELSE /\ lpc' = "done"
            /\ UNCHANGED <<npass, taken>>
    /\ UNCHANGED <<total, count, per_pass, emitted, handed, iters, bvars, ivars, nvars>>

\* The for: the next batch of the pass is yielded, or the pass is exhausted.
LoopFor ==
    /\ lpc = "for"
    /\ IF taken < per_pass
       THEN /\ taken' = taken + 1
            /\ emitted' = Append(emitted, <<npass, taken + 1>>)
            /\ handed' = handed + 1
            /\ lpc' = "yield"
       ELSE /\ lpc' = "while"
            /\ UNCHANGED <<taken, emitted, handed>>
    /\ UNCHANGED <<total, count, per_pass, npass, iters, bvars, ivars, nvars>>

\* The consumer asks for the next batch: the statements after the yield.
LoopResume ==
    /\ lpc = "yield"
    /\ count' = count + 1
    /\ lpc' = IF Break(count', total) THEN "while" ELSE "for"
    /\ UNCHANGED <<total, per_pass, npass, taken, emitted, handed, iters, bvars, ivars, nvars>>

\* The consumer drops the generator right after it received a batch.
LoopAbandon ==
    /\ lpc = "yield"
    /\ lpc' = "idle"
    /\ UNCHANGED <<total, count, per_pass, npass, taken, emitted, handed, iters, bvars, ivars, nvars>>

LoopRun == LoopWhile \/ LoopFor \/ LoopResume

NextLoop == LoopIter \/ LoopWhile \/ LoopFor \/ LoopResume \/ LoopAbandon

SpecLoop == InitLoop /\ [][NextLoop]_vars

\* The generator runs on while it can and the consumer keeps asking.
FairSpecLoop == SpecLoop /\ WF_vars(LoopRun)

(***************************************************************************)
(* BatchIterable.__init__, and the passes over the object it constructed.  *)
(***************************************************************************)
\* The values of the sort_by argument; "None" stands for None and "bogus"
\* for a string that names no query.
SortArgs == {"None", "", "random", "y_len_desc", "eq_len_rand_batch", "bogus"}

\* The keys of known_queries in SqliteFile.make_query.
KnownQueries ==
    {"y_len_asc", "y_len_desc", "x_len_asc", "x_len_desc", "random",
     "eq_len_rand_batch"}

\* Only the equal-length strategy is refused.
IfSortByEqLen(arg) == arg = "eq_len_rand_batch"

\* "if sort_by:" - the argument is neither None nor the empty string.
IfSortBy(arg) == arg \notin {"None", ""}

\* What __init__ does: [ok, err, sort_by].
BatchIterable_init(name, exists, arg) ==
    IF ~exists THEN [ok |-> FALSE, err |-> "AssertionError", sort_by |-> "seq"]
    ELSE IF name = "db"
         THEN IF arg \in KnownQueries
              THEN [ok |-> TRUE, err |-> "none",
                    sort_by |-> IF arg = "eq_len_rand_batch" THEN arg ELSE "seq"]
              ELSE [ok |-> FALSE, err |-> "AssertionError", sort_by |-> "seq"]
         ELSE IF IfSortBy(arg)
              THEN [ok |-> FALSE, err |-> "Exception", sort_by |-> "seq"]
              ELSE [ok |-> TRUE, err |-> "none",
                    sort_by |-> IF arg = "eq_len_rand_batch" THEN arg ELSE "seq"]

\* The record lists of a .memdb.pkl left by an earlier construction over the
\* same path: those of an older store.
MemdbStores == StoreLists(1, {Words(1)})

InitCtor ==
    /\ backend \in {"db", "tsv"}
    /\ sort_by_arg \in SortArgs
    /\ path_exists \in BOOLEAN
    /\ shuffle_arg \in BOOLEAN
    /\ keep_in_mem \in BOOLEAN
    /\ memdb \in {[exists |-> FALSE, recs |-> <<>>]}
                 \cup {[exists |-> TRUE, recs |-> d] : d \in MemdbStores}
    /\ sort_by = "seq"
    /\ data \in StoreLists(MaxCtorRecs, {q \in SeqPool : Len(q) > 0})
    /\ batch_size \in {MaxSeqLen, MaxBudget}
    /\ orig = data
    /\ bpc = "new"
    /\ pos = 1
    /\ batch = <<>>
    /\ max_len = 0
    /\ buckets = <<>>
    /\ computed = <<>>
    /\ out = <<>>
    /\ prev = [done |-> FALSE, out |-> <<>>]
    /\ err = "none"
    /\ passNo = 1
    /\ IdsIdle /\ LoopIdle /\ IdxIdle
    /\ BuildIdle /\ StoreIdle /\ MemIdle /\ TsvIdle /\ PrepIdle

\* BatchIterable(data_path, batch_size, field, sort_by=sort_by_arg,
\* shuffle=shuffle_arg, keep_in_mem=keep_in_mem).  The order of the first pass
\* is drawn with it; InMemoryData(self.data) is filled in the order the store
\* delivers once, and pickled into the .memdb.pkl file; when that file exists
\* the InMemoryData pickled in it is self.data in place of the store.
\* get_all_ids of a SqliteFile reads the table in id order.
Construct ==
    /\ bpc = "new"
    /\ LET r == BatchIterable_init(backend, path_exists, sort_by_arg)
           draws == /\ r.ok
                    /\ \/ backend = "db" /\ (keep_in_mem \/ r.sort_by = "seq")
                       \/ backend = "tsv" /\ shuffle_arg
       IN  /\ bpc' = IF r.ok THEN "start" ELSE "rejected"
           /\ err' = r.err
           /\ sort_by' = r.sort_by
           /\ IF r.ok /\ keep_in_mem /\ memdb.exists
              THEN /\ data' = memdb.recs
                   /\ memdb' = memdb
              ELSE /\ data' \in PassOrders(data, draws)
                   /\ memdb' = IF r.ok /\ keep_in_mem
                               THEN [exists |-> TRUE, recs |-> data']
                               ELSE memdb
           /\ orig' = data'
    /\ UNCHANGED <<keep_in_mem, batch_size, pos, batch, max_len, buckets,
                   computed, out, prev, passNo>>
    /\ UNCHANGED <<backend, sort_by_arg, path_exists, shuffle_arg>>
    /\ UNCHANGED <<ivars, lvars, kvars, svars, mvars, tvars, pvars, xvars>>

NextCtor == Construct \/ ReadAllNext \/ ReadAllEnd \/ EqLenStart \/ EqLenNext \/ NewPass

SpecCtor == InitCtor /\ [][NextCtor]_vars

(***************************************************************************)
(* Batch.__init__ called by a caller that keeps its record list: the       *)
(* Batch is built from the same list again.                                *)
(***************************************************************************)
\* A sequence of n tokens, the first the BOS value if b, the last the EOS
\* value if e.
Mark(n, b, e) ==
    [i \in 1..n |-> IF i = 1 /\ b THEN BosVal
                    ELSE IF i = n /\ e THEN EosVal ELSE 5]

BuildXPool == {Mark(n, b, e) : n \in 0..MaxSeqLen, b \in BOOLEAN, e \in BOOLEAN}

BuildYPool ==
    {None, <<>>, Words(MaxSeqLen),
     Mark(MaxSeqLen, TRUE, FALSE), Mark(MaxSeqLen, FALSE, TRUE)}

\* The record lists of up to n records with x from xs and y from ys, the id
\* of a record being its position.
RECURSIVE RecLists(_, _, _)
RecLists(n, xs, ys) ==
    IF n = 0 THEN {<<>>}
    ELSE LET shorter == RecLists(n - 1, xs, ys)
         IN  shorter \cup
               {Append(d, [id |-> Len(d) + 1, x |-> xv, y |-> yv]) :
                  d \in {q \in shorter : Len(q) = n - 1}, xv \in xs, yv \in ys}

BatchArgs ==
    [sort_dec : BOOLEAN, batch_first : BOOLEAN,
     add_bos_x : BOOLEAN, add_eos_x : BOOLEAN,
     add_bos_y : BOOLEAN, add_eos_y : BOOLEAN]

\* There is no BatchIterable.
PassIdle ==
    /\ keep_in_mem = FALSE
    /\ sort_by = "seq"
    /\ data = <<>>
    /\ batch_size = MaxBudget
    /\ InitPass

InitBuild ==
    /\ brecs \in RecLists(MaxBuildRecs, BuildXPool, BuildYPool)
    /\ bcfg \in BatchArgs
    /\ bres = [ok |-> TRUE]
    /\ bprev = <<>>
    /\ builds = 0
    /\ PassIdle /\ IdsIdle /\ LoopIdle
    /\ IdxIdle /\ CtorIdle /\ StoreIdle /\ MemIdle /\ TsvIdle /\ PrepIdle

\* Batch(brecs, **bcfg): the records of the caller are changed in place.
BuildBatch ==
    /\ builds < MaxBuilds
    /\ bres' = BatchInit(brecs, bcfg.sort_dec, bcfg.batch_first,
                         bcfg.add_bos_x, bcfg.add_eos_x,
                         bcfg.add_bos_y, bcfg.add_eos_y)
    /\ brecs' = bres'.recs
    /\ bprev' = brecs
    /\ builds' = builds + 1
    /\ UNCHANGED <<bcfg, bvars, ivars, lvars, cvars, xvars, svars, mvars, tvars, pvars>>

NextBuild == BuildBatch

SpecBuild == InitBuild /\ [][NextBuild]_vars

(***************************************************************************)
(* SqliteFile: write, followed step by step so that it can be interrupted, *)
(* and __iter__ over the store that was written.                           *)
(***************************************************************************)
\* The tokens base+1 .. base+n.
Ramp(n, base) == [i \in 1..n |-> base + i]

\* The (x, y) pairs handed to write: x is a list, y a list or None.
WriteXs == {Ramp(n, 0) : n \in 0..MaxSeqLen}

WriteYs == {None} \cup {Ramp(n, MaxSeqLen) : n \in 0..MaxSeqLen}

RECURSIVE PairLists(_, _, _)
PairLists(n, xs, ys) ==
    IF n = 0 THEN {<<>>}
    ELSE LET shorter == PairLists(n - 1, xs, ys)
         IN  shorter \cup
               {Append(d, [x |-> xv, y |-> yv]) :
                  d \in {q \in shorter : Len(q) = n - 1}, xv \in xs, yv \in ys}

\* pickle.dumps / pickle.loads of a token list: the blob of a list is not
\* the list, and the NULL of the y column is no blob.
pickle_dumps(seq) == [null |-> FALSE, pkl |-> seq]

Null == [null |-> TRUE, pkl |-> <<>>]

pickle_loads(blob) == blob.pkl

\* The x sequence is marshalled into both columns.
InsertValuesBothX(x_seq, y_seq) ==
    [x |-> pickle_dumps(x_seq), y |-> pickle_dumps(x_seq),
     x_len |-> Len(x_seq), y_len |-> Len(x_seq)]

\* The values of INSERT_STMT for one record.
InsertValues(x_seq, y_seq) ==
    [x |-> pickle_dumps(x_seq),
     y |-> IF y_seq = None THEN Null ELSE pickle_dumps(y_seq),
     x_len |-> Len(x_seq),
     y_len |-> IF y_seq # None THEN Len(y_seq) ELSE -1]

\* The row the table gets: id INTEGER PRIMARY KEY AUTOINCREMENT.
InsertRow(rows, x_seq, y_seq) ==
    LET v == InsertValues(x_seq, y_seq)
    IN  Append(rows, [id |-> Len(rows) + 1, x |-> v.x, y |-> v.y,
                      x_len |-> v.x_len, y_len |-> v.y_len])

\* The rows of a store written from recs.
RECURSIVE InsertAll(_, _)
InsertAll(rows, recs) ==
    IF Len(recs) = 0 THEN rows
    ELSE InsertAll(InsertRow(rows, recs[1].x, recs[1].y), Tail(recs))

\* dict_factory: the row as a dictionary, x and y unmarshalled.
dict_factory(row) ==
    [id |-> row.id, x |-> pickle_loads(row.x),
     y |-> IF row.y.null THEN None ELSE pickle_loads(row.y)]

\* SqliteFile.__iter__ over the rows the query delivers, consumed by list():
\* [ok, err, recs].  len(y) in the warning raises when y is None.
RECURSIVE SqliteFile_iter(_, _, _, _, _)
SqliteFile_iter(rows, max_src_len, max_tgt_len, truncate, acc) ==
    IF Len(rows) = 0 THEN [ok |-> TRUE, err |-> "none", recs |-> acc]
    ELSE LET d == dict_factory(rows[1])
             rest == Tail(rows)
         IN  IF d.y = None
             THEN [ok |-> FALSE, err |-> "TypeError", recs |-> <<>>]
             ELSE IF Len(d.x) = 0 \/ Len(d.y) = 0
             THEN SqliteFile_iter(rest, max_src_len, max_tgt_len, truncate, acc)
             ELSE IF Len(d.x) > max_src_len \/ Len(d.y) > max_tgt_len
             THEN IF truncate
                  THEN SqliteFile_iter(rest, max_src_len, max_tgt_len, truncate,
                          Append(acc, [id |-> d.id,
                                       x |-> SubSeq(d.x, 1, Min(Len(d.x), max_src_len)),
                                       y |-> SubSeq(d.y, 1, Min(Len(d.y), max_tgt_len))]))
                  ELSE SqliteFile_iter(rest, max_src_len, max_tgt_len, truncate, acc)
             ELSE SqliteFile_iter(rest, max_src_len, max_tgt_len, truncate,
                                  Append(acc, [id |-> d.id, x |-> d.x, y |-> d.y]))

\* The store that was at the path before, when there was one.
OldRows == InsertAll(<<>>, << [x |-> <<7>>, y |-> <<7, 7>>] >>)

InitStore ==
    /\ wrecs \in PairLists(MaxWrite, WriteXs, WriteYs)
    /\ \/ /\ old_rows = OldRows
          /\ path_file = [exists |-> TRUE, table |-> TRUE, rows |-> OldRows]
       \/ /\ old_rows = <<>>
          /\ path_file = NoFile
    /\ tmp_file = NoFile
    /\ use_tmp \in BOOLEAN
    /\ pending = <<>>
    /\ wpc = "remove"
    /\ rcfg \in [max_len : {MaxSeqLen - 1, DefaultMaxLen}, truncate : BOOLEAN]
    /\ rd = [ok |-> TRUE, err |-> "none", recs |-> <<>>]
    /\ rpc = "idle"
    /\ PassIdle /\ IdsIdle /\ LoopIdle
    /\ IdxIdle /\ CtorIdle /\ BuildIdle /\ MemIdle /\ TsvIdle /\ PrepIdle

\* "if path.exists(): os.remove(str(path))", then IO.maybe_tmpfs(path).
WriteRemove ==
    /\ wpc = "remove"
    /\ path_file' = NoFile
    /\ wpc' = "connect"
    /\ UNCHANGED <<wrecs, old_rows, tmp_file, use_tmp, pending, rcfg, rd, rpc>>
    /\ UNCHANGED <<bvars, ivars, lvars, cvars, xvars, kvars, mvars, tvars, pvars>>

\* sqlite3.connect(str(maybe_tmp)): the file is created, with no table.
WriteConnect ==
    /\ wpc = "connect"
    /\ IF use_tmp
       THEN /\ tmp_file' = [exists |-> TRUE, table |-> FALSE, rows |-> <<>>]
            /\ UNCHANGED path_file
       ELSE /\ path_file' = [exists |-> TRUE, table |-> FALSE, rows |-> <<>>]
            /\ UNCHANGED tmp_file
    /\ wpc' = "create"
    /\ UNCHANGED <<wrecs, old_rows, use_tmp, pending, rcfg, rd, rpc>>
    /\ UNCHANGED <<bvars, ivars, lvars, cvars, xvars, kvars, mvars, tvars, pvars>>

\* cur.execute(cls.TABLE_STATEMENT): the file has the empty table data.
WriteCreate ==
    /\ wpc = "create"
    /\ IF use_tmp
       THEN /\ tmp_file' = [tmp_file EXCEPT !.table = TRUE]
            /\ UNCHANGED path_file
       ELSE /\ path_file' = [path_file EXCEPT !.table = TRUE]
            /\ UNCHANGED tmp_file
    /\ wpc' = "insert"
    /\ UNCHANGED <<wrecs, old_rows, use_tmp, pending, rcfg, rd, rpc>>
    /\ UNCHANGED <<bvars, ivars, lvars, cvars, xvars, kvars, mvars, tvars, pvars>>

\* One turn of "for x_seq, y_seq in records": the INSERT of the next record
\* into the open transaction, or the end of the loop.
WriteInsert ==
    /\ wpc = "insert"
    /\ IF Len(pending) < Len(wrecs)
       THEN /\ pending' = InsertRow(pending, wrecs[Len(pending) + 1].x,
                                    wrecs[Len(pending) + 1].y)
            /\ wpc' = "insert"
       ELSE /\ pending' = pending
            /\ wpc' = "commit"
    /\ UNCHANGED <<wrecs, old_rows, path_file, tmp_file, use_tmp, rcfg, rd, rpc>>
    /\ UNCHANGED <<bvars, ivars, lvars, cvars, xvars, kvars, mvars, tvars, pvars>>

\* conn.commit(): the inserted rows are in the file.
WriteCommit ==
    /\ wpc = "commit"
    /\ IF use_tmp
       THEN /\ tmp_file' = [tmp_file EXCEPT !.rows = pending]
            /\ UNCHANGED path_file
       ELSE /\ path_file' = [path_file EXCEPT !.rows = pending]
            /\ UNCHANGED tmp_file
    /\ pending' = <<>>
    /\ wpc' = IF use_tmp THEN "copy" ELSE "done"
    /\ UNCHANGED <<wrecs, old_rows, use_tmp, rcfg, rd, rpc>>
    /\ UNCHANGED <<bvars, ivars, lvars, cvars, xvars, kvars, mvars, tvars, pvars>>

\* "if maybe_tmp != path: IO.copy_file(maybe_tmp, path)".
WriteCopy ==
    /\ wpc = "copy"
    /\ path_file' = tmp_file
    /\ wpc' = "done"
    /\ UNCHANGED <<wrecs, old_rows, tmp_file, use_tmp, pending, rcfg, rd, rpc>>
    /\ UNCHANGED <<bvars, ivars, lvars, cvars, xvars, kvars, mvars, tvars, pvars>>

\* The process is interrupted inside write: the open transaction is lost,
\* the files stay as they are.
WriteInterrupt ==
    /\ wpc \in {"remove", "connect", "create", "insert", "commit", "copy"}
    /\ wpc' = "interrupted"
    /\ pending' = <<>>
    /\ UNCHANGED <<wrecs, old_rows, path_file, tmp_file, use_tmp, rcfg, rd, rpc>>
    /\ UNCHANGED <<bvars, ivars, lvars, cvars, xvars, kvars, mvars, tvars, pvars>>

\* list(SqliteFile(path, max_src_len, max_tgt_len, truncate)) after the
\* write ended: READ_RANDOM delivers the rows in any order.  __init__ asserts
\* that the path exists, and the query needs the table.
ReadBack ==
    /\ wpc \in {"done", "interrupted"}
    /\ rpc = "idle"
    /\ IF ~path_file.exists
       THEN rd' = [ok |-> FALSE, err |-> "AssertionError", recs |-> <<>>]
       ELSE IF ~path_file.table
       THEN rd' = [ok |-> FALSE, err |-> "OperationalError", recs |-> <<>>]
       ELSE \E f \in Perms(Len(path_file.rows)) :
              rd' = SqliteFile_iter([i \in 1..Len(path_file.rows) |-> path_file.rows[f[i]]],
                                    rcfg.max_len, rcfg.max_len, rcfg.truncate, <<>>)
    /\ rpc' = "read"
    /\ UNCHANGED <<wrecs, old_rows, path_file, tmp_file, use_tmp, pending, wpc, rcfg>>
    /\ UNCHANGED <<bvars, ivars, lvars, cvars, xvars, kvars, mvars, tvars, pvars>>

NextStore ==
    \/ WriteRemove \/ WriteConnect \/ WriteCreate \/ WriteInsert \/ WriteCommit \/ WriteCopy
    \/ WriteInterrupt \/ ReadBack

SpecStore == InitStore /\ [][NextStore]_vars

(***************************************************************************)
(* InMemoryData.__init__ over a stream of IdExample.                       *)
(***************************************************************************)
\* The streams of up to n records with ids from ids.
RECURSIVE Streams(_, _)
Streams(n, ids) ==
    IF n = 0 THEN {<<>>}
    ELSE LET shorter == Streams(n - 1, ids)
         IN  shorter \cup
               {Append(d, [id |-> i, x |-> xv, y |-> Words(1)]) :
                  d \in {q \in shorter : Len(q) = n - 1},
                  i \in ids, xv \in {Words(1), Words(MaxSeqLen)}}

\* The id is compared with the id of the record before only.
IsIdOfLast(ids, id) == Len(ids) > 0 /\ ids[Len(ids)].id = id

\* "rec.id in self.ids": ids is the map, a list of [id, ix].
InIds(ids, id) == \E k \in 1..Len(ids) : ids[k].id = id

\* __init__ from record i of the stream on: [ok, data, ids].
RECURSIVE InMemoryData_init(_, _, _, _)
InMemoryData_init(st, i, dat, ids) ==
    IF i > Len(st) THEN [ok |-> Len(dat) = Len(ids), data |-> dat, ids |-> ids]
    ELSE IF InIds(ids, st[i].id) THEN [ok |-> FALSE, data |-> dat, ids |-> ids]
    ELSE InMemoryData_init(st, i + 1, Append(dat, st[i]),
                           Append(ids, [id |-> st[i].id, ix |-> Len(dat)]))

InitMem ==
    /\ stream \in Streams(MaxStream, 1..MaxStream)
    /\ mres = [ok |-> TRUE, data |-> <<>>, ids |-> <<>>]
    /\ mpc = "new"
    /\ PassIdle /\ IdsIdle /\ LoopIdle
    /\ IdxIdle /\ CtorIdle /\ BuildIdle /\ StoreIdle /\ TsvIdle /\ PrepIdle

\* InMemoryData(stream).
LoadMem ==
    /\ mpc = "new"
    /\ mres' = InMemoryData_init(stream, 1, <<>>, <<>>)
    /\ mpc' = IF mres'.ok THEN "loaded" ELSE "failed"
    /\ UNCHANGED <<stream, bvars, ivars, lvars, cvars, xvars, kvars, svars, tvars, pvars>>

NextMem == LoadMem

SpecMem == InitMem /\ [][NextMem]_vars

(***************************************************************************)
(* TSVData: __init__, read_all and the passes of __iter__.  A line of the  *)
(* file is the list of its tab-separated fields, each field the list of    *)
(* its integers.                                                           *)
(***************************************************************************)
TsvFields == {Words(n) : n \in 0..MaxSeqLen}

\* The lines with one field (no tab) and with two.
TsvLineKinds ==
    {<<xf>> : xf \in TsvFields} \cup {<<xf, yf>> : xf \in TsvFields, yf \in TsvFields}

RECURSIVE TsvFiles(_)
TsvFiles(n) ==
    IF n = 0 THEN {<<>>}
    ELSE LET shorter == TsvFiles(n - 1)
         IN  shorter \cup {Append(f, l) : f \in {q \in shorter : Len(q) = n - 1},
                                           l \in TsvLineKinds}

\* The file of the specification's example: lines of 2, 5 and 3 tokens.
ExampleFile == << <<Words(2)>>, <<Words(5)>>, <<Words(3)>> >>

\* seq[:n]
Prefix(seq, n) == SubSeq(seq, 1, Min(Len(seq), n))

\* "if not x or (y is not None and len(y) == 0)": the warning evaluates
\* len(y), which raises when y is None.
EmptyRecord(x, y) ==
    IF Len(x) = 0 \/ (y # None /\ Len(y) = 0)
    THEN IF y = None THEN "raise" ELSE "drop"
    ELSE "keep"

\* The body of the loop of TSVData.read_all for line i (idx = i - 1): the
\* record is yielded ("rec"), the line is passed over ("skip"), or the
\* warning raises ("raise").
TSVData_line(rec, i, truncate, max_l) ==
    LET x0 == rec[1]
        y0 == IF Len(rec) > 1 THEN rec[2] ELSE None
        x == IF truncate THEN Prefix(x0, max_l) ELSE x0
        y == IF truncate /\ y0 # None THEN Prefix(y0, max_l) ELSE y0
        long == ~truncate /\ (Len(x) > max_l
                                \/ (IF y = None THEN 0 ELSE Len(y)) > max_l)
    IN  IF long THEN [kind |-> "skip", rec |-> <<>>]
        ELSE IF EmptyRecord(x, y) = "raise" THEN [kind |-> "raise", rec |-> <<>>]
        ELSE IF EmptyRecord(x, y) = "drop" THEN [kind |-> "skip", rec |-> <<>>]
        ELSE [kind |-> "rec", rec |-> [id |-> i - 1, x |-> x, y |-> y]]

\* TSVData.read_all from line i on (idx = i - 1): [ok, err, recs]; recs are
\* the records yielded before the end or before the exception.
RECURSIVE TSVData_read_all(_, _, _, _, _)
TSVData_read_all(lines, i, truncate, max_l, acc) ==
    IF i > Len(lines) THEN [ok |-> TRUE, err |-> "none", recs |-> acc]
    ELSE LET l == TSVData_line(lines[i], i, truncate, max_l)
         IN  IF l.kind = "raise"
             THEN [ok |-> FALSE, err |-> "TypeError", recs |-> acc]
             ELSE TSVData_read_all(lines, i + 1, truncate, max_l,
                                   IF l.kind = "rec" THEN Append(acc, l.rec) ELSE acc)

\* One next() on the generator of TSVData.read_all suspended before line i:
\* it runs to its next yield ("rec", and nxt the line after), to the end of
\* the file ("end") or to the exception ("raise").
RECURSIVE TSVData_read_next(_, _, _, _)
TSVData_read_next(lines, i, truncate, max_l) ==
    IF i > Len(lines) THEN [kind |-> "end", rec |-> <<>>, nxt |-> i]
    ELSE LET l == TSVData_line(lines[i], i, truncate, max_l)
         IN  IF l.kind = "skip" THEN TSVData_read_next(lines, i + 1, truncate, max_l)
             ELSE [kind |-> l.kind, rec |-> l.rec, nxt |-> i + 1]

\* sort_key of __iter__.
sort_key(ex) == IF ex.y # None THEN Len(ex.y) ELSE Len(ex.x)

\* sorted(self.mem, key=sort_key, reverse=True): stable.
RECURSIVE sorted_desc(_)
sorted_desc(recs) ==
    IF Len(recs) <= 1 THEN recs
    ELSE LET rest == sorted_desc(SubSeq(recs, 1, Len(recs) - 1))
             last == recs[Len(recs)]
             keep == Cardinality({i \in 1..Len(rest) : sort_key(rest[i]) >= sort_key(last)})
         IN  SubSeq(rest, 1, keep) \o <<last>> \o SubSeq(rest, keep + 1, Len(rest))

\* line_count(path): the lines of the file.
line_count(lines) == Len(lines)

\* self.in_mem
InMem(cfg) == cfg.in_mem \/ cfg.shuffle \/ cfg.longest_first

\* str(n) of a token.
DigitChars == <<"0", "1", "2", "3", "4", "5", "6", "7", "8", "9">>

RECURSIVE str(_)
str(n) ==
    IF n < 10 THEN <<DigitChars[n + 1]>>
    ELSE str(n \div 10) \o <<DigitChars[(n % 10) + 1]>>

\* ' '.join(map(str, x))
RECURSIVE join(_)
join(x) ==
    IF Len(x) = 0 THEN <<>>
    ELSE IF Len(x) = 1 THEN str(x[1])
    ELSE join(SubSeq(x, 1, Len(x) - 1)) \o <<" ">> \o str(x[Len(x)])

\* The characters of a line of the file as write_lines writes it: the
\* fields, a tab between them, and the newline.
LineChars(line) ==
    join(line[1]) \o (IF Len(line) > 1 THEN <<"\t">> \o join(line[2]) ELSE <<>>)
                  \o <<"\n">>

\* The characters of the file.
RECURSIVE FileChars(_)
FileChars(lines) ==
    IF Len(lines) = 0 THEN <<>>
    ELSE FileChars(SubSeq(lines, 1, Len(lines) - 1)) \o LineChars(lines[Len(lines)])

\* chars.split(sep): the pieces between the separators.
RECURSIVE SplitChars(_, _, _, _)
SplitChars(chars, sep, cur, acc) ==
    IF Len(chars) = 0 THEN Append(acc, cur)
    ELSE IF chars[1] = sep
         THEN SplitChars(Tail(chars), sep, <<>>, Append(acc, cur))
         ELSE SplitChars(Tail(chars), sep, Append(cur, chars[1]), acc)

\* int(t) of a token of digits.
RECURSIVE int(_, _)
int(t, n) ==
    IF Len(t) = 0 THEN n
    ELSE int(Tail(t), 10 * n + (CHOOSE d \in 0..9 : DigitChars[d + 1] = t[1]))

\* TSVData._parse of a stripped field: [int(t) for t in line.split()].
TSVData_parse(field) ==
    LET toks == SelectSeq(SplitChars(field, " ", <<>>, <<>>), LAMBDA t : Len(t) > 0)
    IN  [k \in 1..Len(toks) |-> int(toks[k], 0)]

\* The lines a reader gets from the characters of the file after offset off:
\* each line split at the tabs, its first two fields parsed.
TailLines(lines, off) ==
    LET chars == FileChars(lines)
        rest == IF off >= Len(chars) THEN <<>> ELSE SubSeq(chars, off + 1, Len(chars))
        pieces == SplitChars(rest, "\n", <<>>, <<>>)
        ls == IF Len(pieces[Len(pieces)]) = 0
              THEN SubSeq(pieces, 1, Len(pieces) - 1) ELSE pieces
    IN  [k \in 1..Len(ls) |->
           LET rec == SplitChars(ls[k], "\t", <<>>, <<>>)
           IN  IF Len(rec) > 1 THEN <<TSVData_parse(rec[1]), TSVData_parse(rec[2])>>
               ELSE <<TSVData_parse(rec[1])>>]

\* One next() on the generator of read_all whose reader holds the lines
\* flines, is before line i of them and has its file handle at offset off of
\* the file lines: when the lines it holds are used up without a yield, the
\* reader reads the file on from off.  [kind, rec, nxt, flines, off].
FileNext(lines, flines, i, off, truncate, max_l) ==
    LET n0 == TSVData_read_next(flines, i, truncate, max_l)
        more == flines \o TailLines(lines, off)
        n1 == TSVData_read_next(more, i, truncate, max_l)
    IN  IF n0.kind # "end"
        THEN [kind |-> n0.kind, rec |-> n0.rec, nxt |-> n0.nxt,
              flines |-> flines, off |-> off]
        ELSE [kind |-> n1.kind, rec |-> n1.rec, nxt |-> n1.nxt,
              flines |-> more, off |-> Max(off, Len(FileChars(lines)))]

\* TSVData.write_parallel_recs(records, path): a line "x<TAB>y" per record.
write_parallel_recs(records) == [i \in 1..Len(records) |-> <<records[i][1], records[i][2]>>]

\* TSVData.write_mono_recs(records, path): a line per record, without a tab.
write_mono_recs(records) == [i \in 1..Len(records) |-> <<records[i]>>]

InitTsv ==
    /\ \/ /\ tlines \in TsvFiles(MaxLines - 1)
          /\ tcfg \in {c \in [in_mem : BOOLEAN, shuffle : BOOLEAN,
                             longest_first : BOOLEAN, truncate : BOOLEAN,
                             max_len : {MaxSeqLen - 1, DefaultMaxLen}] :
                         c.in_mem => (~c.shuffle /\ ~c.longest_first)}
       \/ \* files of three lines: the example, and three records of which
          \* two have the same sort key
          /\ tlines \in {ExampleFile,
                          << <<Words(1), Words(1)>>, <<Words(2), Words(1)>>,
                             <<Words(1), Words(2)>> >>}
          /\ tcfg \in {c \in [in_mem : BOOLEAN, shuffle : BOOLEAN,
                             longest_first : BOOLEAN, truncate : {FALSE},
                             max_len : {DefaultMaxLen}] :
                         c.in_mem => (~c.shuffle /\ ~c.longest_first)}
    /\ mem = <<>>
    /\ tpc = "new"
    /\ terr = "none"
    /\ tpasses = <<>>
    /\ read_counter = 0
    /\ len_ = 0
    /\ twrites = 0
    /\ PassIdle /\ IdsIdle /\ LoopIdle
    /\ IdxIdle /\ CtorIdle /\ BuildIdle /\ StoreIdle /\ MemIdle /\ PrepIdle

\* TSVData(path, in_mem, shuffle, longest_first, max_src_len, max_tgt_len,
\* truncate): the file is read into self.mem when in_mem.
TsvConstruct ==
    /\ tpc = "new"
    /\ LET r == TSVData_read_all(tlines, 1, tcfg.truncate, tcfg.max_len, <<>>)
       IN  IF InMem(tcfg)
           THEN /\ mem' = IF r.ok THEN r.recs ELSE <<>>
                /\ len_' = IF r.ok THEN Len(r.recs) ELSE 0
                /\ tpc' = IF r.ok THEN "ready" ELSE "failed"
                /\ terr' = r.err
           ELSE /\ mem' = <<>>
                /\ len_' = line_count(tlines)
                /\ tpc' = "ready"
                /\ terr' = "none"
    /\ UNCHANGED <<tlines, tcfg, tpasses, read_counter, twrites>>
    /\ UNCHANGED <<bvars, ivars, lvars, cvars, xvars, kvars, svars, mvars, pvars>>

\* The generator of __iter__ after a next(): g before it, k what the next()
\* came to ("rec" with the record rec, "end", or the exception), at the next
\* position.  read_counter is incremented by the next() that ends the pass.
Pulled(g, k, rec, at) ==
    IF k = "rec"
    THEN [g EXCEPT !.recs = Append(g.recs, rec), !.pos = at]
    ELSE IF k = "end" THEN [g EXCEPT !.state = "done"]
    ELSE [g EXCEPT !.state = "failed", !.ok = FALSE, !.err = k]

\* The same for a generator that yields from read_all, n what FileNext gave.
PulledFile(g, n) ==
    Pulled([g EXCEPT !.src = "file", !.flines = n.flines, !.off = n.off],
           IF n.kind = "raise" THEN "TypeError" ELSE n.kind, n.rec, n.nxt)

\* The first next() on a generator of __iter__: random.shuffle(self.mem)
\* reorders the list object in place, under every generator that yields from
\* that object; sorted() binds self.mem to a new list, and the lists of the
\* generators suspended are objects of their own from then on; then "yield
\* from self.mem if self.mem else self.read_all()" runs to its first yield,
\* to its end or to its exception.
TsvStart ==
    /\ tpc = "ready"
    /\ Len(tpasses) < MaxPasses
    /\ \E f \in Perms(Len(mem)) :
         LET shuffled == IF tcfg.shuffle THEN [i \in 1..Len(mem) |-> mem[f[i]]] ELSE mem
             m == IF tcfg.longest_first THEN sorted_desc(shuffled) ELSE shuffled
             g0 == [state |-> "run", ok |-> TRUE, err |-> "none", recs |-> <<>>,
                    shuffled |-> shuffled, src |-> "mem", lst |-> <<>>,
                    alias |-> FALSE, pos |-> 1, flines |-> <<>>, off |-> 0]
             n == FileNext(tlines, <<>>, 1, 0, tcfg.truncate, tcfg.max_len)
             g == IF tcfg.longest_first /\ read_counter = 0 /\ Len(m) = 0
                  THEN Pulled(g0, "IndexError", <<>>, 1)
                  ELSE IF Len(m) > 0
                  THEN Pulled([g0 EXCEPT !.lst = m, !.alias = TRUE], "rec", m[1], 2)
                  ELSE PulledFile(g0, n)
             others == [p \in 1..Len(tpasses) |->
                          IF tpasses[p].alias
                          THEN [tpasses[p] EXCEPT !.lst = shuffled,
                                                  !.alias = ~tcfg.longest_first]
                          ELSE tpasses[p]]
         IN  /\ (~tcfg.shuffle) => (\A i \in 1..Len(mem) : f[i] = i)
             /\ mem' = m
             /\ tpasses' = Append(others, g)
             /\ read_counter' = IF g.state = "done" THEN read_counter + 1
                                ELSE read_counter
    /\ UNCHANGED <<tlines, tcfg, tpc, terr, len_, twrites>>
    /\ UNCHANGED <<bvars, ivars, lvars, cvars, xvars, kvars, svars, mvars, pvars>>

\* A later next() on the generator p, suspended at its yield: the next
\* element of its list or the next record its reader gets (from the lines it
\* holds, then from the file as it is now, after the offset of the handle),
\* or the end of the pass and "self.read_counter += 1".
TsvNext(p) ==
    /\ tpasses[p].state = "run"
    /\ LET g == tpasses[p]
           n == FileNext(tlines, g.flines, g.pos, g.off, tcfg.truncate, tcfg.max_len)
           g1 == IF g.src = "mem"
                 THEN IF g.pos <= Len(g.lst)
                      THEN Pulled(g, "rec", g.lst[g.pos], g.pos + 1)
                      ELSE Pulled(g, "end", <<>>, g.pos)
                 ELSE PulledFile(g, n)
       IN  /\ tpasses' = [tpasses EXCEPT ![p] = g1]
           /\ read_counter' = IF g1.state = "done" THEN read_counter + 1
                              ELSE read_counter
    /\ UNCHANGED <<tlines, tcfg, mem, tpc, terr, len_, twrites>>
    /\ UNCHANGED <<bvars, ivars, lvars, cvars, xvars, kvars, svars, mvars, pvars>>

\* TSVData.write_parallel_recs or TSVData.write_mono_recs on the path of the
\* store, at any moment: before the constructor, after it, and while
\* generators are suspended, those inside read_all with the file open included.
TsvWrite ==
    /\ twrites < MaxRewrites
    /\ \/ \E records \in { << <<Words(1), Words(2)>>, <<Words(2), Words(2)>>,
                               <<Words(1), Words(1)>> >> } :
             tlines' = write_parallel_recs(records)
       \/ \E records \in { <<Words(2), Words(1)>> } :
             tlines' = write_mono_recs(records)
    /\ twrites' = twrites + 1
    /\ UNCHANGED <<tcfg, mem, tpc, terr, tpasses, read_counter, len_>>
    /\ UNCHANGED <<bvars, ivars, lvars, cvars, xvars, kvars, svars, mvars, pvars>>

NextTsv ==
    \/ TsvConstruct
    \/ TsvStart
    \/ \E p \in 1..Len(tpasses) : TsvNext(p)
    \/ TsvWrite

SpecTsv == InitTsv /\ [][NextTsv]_vars

(***************************************************************************)
(* Preprocessing of two raw corpus files: read_raw_parallel_lines and the  *)
(* two functions that tokenize its pairs, consumed by the store writer.    *)
(* A line is the list of its words; a blank line has none.                 *)
(***************************************************************************)
RawLines == {<<>>, Ramp(1, 0), Ramp(MaxSeqLen, 0)}

RECURSIVE RawFiles(_)
RawFiles(n) ==
    IF n = 0 THEN {<<>>}
    ELSE LET shorter == RawFiles(n - 1)
         IN  shorter \cup {Append(f, l) : f \in {q \in shorter : Len(q) = n - 1},
                                           l \in RawLines}

\* The tokenizers of the caller: a token for every word.
src_tokenizer(line) == [i \in 1..Len(line) |-> line[i] + 10]

tgt_tokenizer(line) == [i \in 1..Len(line) |-> line[i] + 20]

\* zip: the pairs up to the end of the shorter file.
ZipShortest(a, b) == [i \in 1..Min(Len(a), Len(b)) |-> <<a[i], b[i]>>]

\* zip_longest(src_lines, tgt_lines): None where a file has ended.
ZipLongest(a, b) ==
    [i \in 1..Max(Len(a), Len(b)) |->
        <<IF i <= Len(a) THEN a[i] ELSE None, IF i <= Len(b) THEN b[i] ELSE None>>]

\* One pair of read_raw_parallel_lines: "raise" (strip() of None), "skip"
\* (not src or not tgt) or "pair".
RawPair(pair) ==
    IF pair[1] = None \/ pair[2] = None THEN "raise"
    ELSE IF Len(pair[1]) = 0 \/ Len(pair[2]) = 0 THEN "skip"
    ELSE "pair"

\* Tokenizing and the truncate-or-filter policy for one pair (TokenizerTask,
\* and the generators of read_raw_parallel_recs): [keep, x, y].
TokenizerTask(pair, cfg) ==
    LET x == src_tokenizer(pair[1])
        y == tgt_tokenizer(pair[2])
    IN  IF cfg.truncate
        THEN [keep |-> TRUE, x |-> Prefix(x, cfg.src_len), y |-> Prefix(y, cfg.tgt_len)]
        ELSE [keep |-> Len(x) <= cfg.src_len /\ Len(y) <= cfg.tgt_len, x |-> x, y |-> y]

\* pool.map(mapper_func, recs) and the dropping of the None results: the
\* pairs are all read before the first is mapped.  [ok, recs].
RECURSIVE pool_map(_, _, _, _)
pool_map(pairs, i, cfg, acc) ==
    IF i > Len(pairs)
    THEN [ok |-> TRUE,
          recs |-> LET mapped == [k \in 1..Len(acc) |-> TokenizerTask(acc[k], cfg)]
                       kept == SelectSeq(mapped, LAMBDA r : r.keep)
                   IN  [k \in 1..Len(kept) |-> [x |-> kept[k].x, y |-> kept[k].y]]]
    ELSE IF RawPair(pairs[i]) = "raise" THEN [ok |-> FALSE, recs |-> <<>>]
    ELSE IF RawPair(pairs[i]) = "skip" THEN pool_map(pairs, i + 1, cfg, acc)
    ELSE pool_map(pairs, i + 1, cfg, Append(acc, pairs[i]))

\* next() on the generator of read_raw_parallel_recs with the pairs from i
\* on: [kind, pos, rec], kind "rec", "raise" or "stop".
RECURSIVE lazy_next(_, _, _)
lazy_next(pairs, i, cfg) ==
    IF i > Len(pairs) THEN [kind |-> "stop", pos |-> i, rec |-> <<>>]
    ELSE IF RawPair(pairs[i]) = "raise" THEN [kind |-> "raise", pos |-> i, rec |-> <<>>]
    ELSE IF RawPair(pairs[i]) = "skip" THEN lazy_next(pairs, i + 1, cfg)
    ELSE LET t == TokenizerTask(pairs[i], cfg)
         IN  IF t.keep THEN [kind |-> "rec", pos |-> i + 1, rec |-> [x |-> t.x, y |-> t.y]]
             ELSE lazy_next(pairs, i + 1, cfg)

InitPrep ==
    /\ src_lines \in RawFiles(MaxLines)
    /\ tgt_lines \in RawFiles(MaxLines)
    /\ pkind \in {"pool", "lazy"}
    /\ pcfg \in {[truncate |-> t, src_len |-> n, tgt_len |-> n] :
                    t \in BOOLEAN, n \in {MaxSeqLen - 1, MaxSeqLen}}
    /\ ppc = "new"
    /\ precs = <<>>
    /\ ppos = 1
    /\ written = <<>>
    /\ perr = "none"
    /\ PassIdle /\ IdsIdle /\ LoopIdle
    /\ IdxIdle /\ CtorIdle /\ BuildIdle /\ StoreIdle /\ MemIdle /\ TsvIdle

\* The call: read_raw_parallel_recs_parallel maps all pairs in the pool and
\* returns the records; read_raw_parallel_recs returns a generator.
PrepCall ==
    /\ ppc = "new"
    /\ IF pkind = "pool"
       THEN LET r == pool_map(ZipLongest(src_lines, tgt_lines), 1, pcfg, <<>>)
            IN  /\ ppc' = IF r.ok THEN "stream" ELSE "failed"
                /\ perr' = IF r.ok THEN "none" ELSE "AttributeError"
                /\ precs' = r.recs
       ELSE /\ ppc' = "stream"
            /\ UNCHANGED <<perr, precs>>
    /\ UNCHANGED <<src_lines, tgt_lines, pkind, pcfg, ppos, written>>
    /\ UNCHANGED <<bvars, ivars, lvars, cvars, xvars, kvars, svars, mvars, tvars>>

\* The store writer takes the next record ("for x_seq, y_seq in records").
WriterPull ==
    /\ ppc = "stream"
    /\ IF pkind = "pool"
       THEN /\ IF ppos <= Len(precs)
               THEN /\ written' = Append(written, precs[ppos])
                    /\ ppos' = ppos + 1
                    /\ ppc' = "stream"
               ELSE /\ ppc' = "done"
                    /\ UNCHANGED <<written, ppos>>
            /\ UNCHANGED perr
       ELSE LET r == lazy_next(ZipLongest(src_lines, tgt_lines), ppos, pcfg)
            IN  /\ ppos' = r.pos
                /\ written' = IF r.kind = "rec" THEN Append(written, r.rec) ELSE written
                /\ ppc' = IF r.kind = "rec" THEN "stream"
                          ELSE IF r.kind = "raise" THEN "failed" ELSE "done"
                /\ perr' = IF r.kind = "raise" THEN "AttributeError" ELSE perr
    /\ UNCHANGED <<src_lines, tgt_lines, pkind, pcfg, precs>>
    /\ UNCHANGED <<bvars, ivars, lvars, cvars, xvars, kvars, svars, mvars, tvars>>

NextPrep == PrepCall \/ WriterPull

SpecPrep == InitPrep /\ [][NextPrep]_vars

(***************************************************************************)
(* A BatchIterable over an indexed store that is not kept in memory:       *)
(* read_all consumes SqliteFile.__iter__, make_eq_len_ran_batches consumes *)
(* get_all and get_all_ids.                                                *)
(***************************************************************************)
\* What SqliteFile.__iter__ does with one row: "raise" (len(y) of None in
\* the warning), "skip", or "rec" with the record yielded.
SqliteFile_row(row, max_src_len, max_tgt_len, truncate) ==
    LET d == dict_factory(row)
        res_of(k, x, y) == [kind |-> k, rec |-> [id |-> d.id, x |-> x, y |-> y]]
    IN  IF d.y = None THEN res_of("raise", d.x, d.y)
        ELSE IF Len(d.x) = 0 \/ Len(d.y) = 0 THEN res_of("skip", d.x, d.y)
        ELSE IF Len(d.x) > max_src_len \/ Len(d.y) > max_tgt_len
             THEN IF truncate
                  THEN res_of("rec", SubSeq(d.x, 1, Min(Len(d.x), max_src_len)),
                                  SubSeq(d.y, 1, Min(Len(d.y), max_tgt_len)))
                  ELSE res_of("skip", d.x, d.y)
             ELSE res_of("rec", d.x, d.y)

\* SqliteFile.__iter__ consumed record by record: [err, recs], recs the
\* records yielded before the end of the rows or the exception.
RECURSIVE SqliteFile_stream(_, _, _, _, _)
SqliteFile_stream(rows, max_src_len, max_tgt_len, truncate, acc) ==
    IF Len(rows) = 0 THEN [err |-> "none", recs |-> acc]
    ELSE LET r == SqliteFile_row(rows[1], max_src_len, max_tgt_len, truncate)
         IN  IF r.kind = "raise" THEN [err |-> "TypeError", recs |-> acc]
             ELSE SqliteFile_stream(Tail(rows), max_src_len, max_tgt_len, truncate,
                                    IF r.kind = "rec" THEN Append(acc, r.rec) ELSE acc)

\* The rows as select_qry (ORDER BY RANDOM()) can deliver them.
SelectOrders(rows) == {[i \in 1..Len(rows) |-> rows[f[i]]] : f \in Perms(Len(rows))}

\* The rows as get_all and get_all_ids see them.
AllRows(rows) == [i \in 1..Len(rows) |-> dict_factory(rows[i])]

InitIdx ==
    /\ db_rows \in {InsertAll(<<>>, w) : w \in PairLists(MaxWrite, WriteXs, WriteYs)}
    /\ db_cfg \in [max_len : {MaxSeqLen - 1, DefaultMaxLen}, truncate : BOOLEAN]
    /\ qrows = <<>>
    /\ keep_in_mem = FALSE
    /\ sort_by \in {"seq", "eq_len_rand_batch"}
    /\ data = IF sort_by = "seq" THEN <<>> ELSE AllRows(db_rows)
    /\ batch_size \in {MaxSeqLen, MaxBudget}
    /\ InitPass
    /\ IdsIdle /\ LoopIdle
    /\ CtorIdle /\ BuildIdle /\ StoreIdle /\ MemIdle /\ TsvIdle /\ PrepIdle

(***************************************************************************)
(* One next() on the generator of read_all over the SqliteFile: the first  *)
(* one runs the query; the loop then runs to the next yield, to a raise    *)
(* (of read_all or of SqliteFile.__iter__), or to the end.                 *)
(***************************************************************************)
IdxReadAllNext ==
    /\ sort_by = "seq"
    /\ bpc \in {"start", "run"}
    /\ \E q \in (IF bpc = "start" THEN SelectOrders(db_rows) ELSE {qrows}) :
         LET st == SqliteFile_stream(q, db_cfg.max_len, db_cfg.max_len,
                                     db_cfg.truncate, <<>>)
             d == st.recs
             r == read_all(d, batch_size, pos, batch, max_len)
             recs == [i \in 1..Len(r.flush) |-> d[r.flush[i].ix]]
             built == Build(recs)
         IN  /\ qrows' = q
             /\ data' = d
             /\ pos' = r.pos
             /\ batch' = r.batch
             /\ max_len' = r.max_len
             /\ IF r.kind = "raise"
                THEN /\ bpc' = "error"
                     /\ err' = "overflow"
                     /\ out' = out
                ELSE IF r.kind \in {"tail", "stop"} /\ st.err # "none"
                THEN /\ bpc' = "error"
                     /\ err' = st.err
                     /\ out' = out
                ELSE IF r.kind = "stop"
                THEN /\ bpc' = "done"
                     /\ err' = "none"
                     /\ out' = out
                ELSE /\ bpc' = IF ~built.ok THEN "error"
                               ELSE IF r.kind = "tail" THEN "tail" ELSE "run"
                     /\ err' = IF built.ok THEN "none" ELSE "Batch"
                     /\ out' = IF built.ok THEN Append(out, Yielded(recs, r.flush, built))
                               ELSE out
    /\ UNCHANGED <<keep_in_mem, batch_size, sort_by, buckets, computed, orig, prev, passNo>>
    /\ UNCHANGED <<db_rows, db_cfg>>
    /\ UNCHANGED <<ivars, lvars, cvars, kvars, svars, mvars, tvars, pvars>>

NextIdx == IdxReadAllNext \/ ReadAllEnd \/ EqLenStart \/ EqLenNext \/ NewPass

SpecIdx == InitIdx /\ [][NextIdx]_vars

(***************************************************************************)
(* Properties of the two bucketing strategies.                             *)
(***************************************************************************)
NonEmptyRec(r) == ~IsEmptyRec(Len(r.x), Len(r.y))

RecLen(r) == ThisLen(Len(r.x), Len(r.y))

\* The ids of a list of yielded batches, concatenated in emission order.
RECURSIVE ConcatIds(_)
ConcatIds(bs) == IF Len(bs) = 0 THEN <<>> ELSE bs[1].ids \o ConcatIds(Tail(bs))

\* The ids of a list of batches, one list per batch.
IdLists(bs) == [i \in 1..Len(bs) |-> bs[i].ids]

\* The positions of the records of the pass that have no empty side, in
\* store order.
RECURSIVE Kept(_, _)
Kept(d, p) ==
    IF p > Len(d) THEN <<>>
    ELSE (IF NonEmptyRec(d[p]) THEN <<d[p].id>> ELSE <<>>) \o Kept(d, p + 1)

Range(f) == {f[i] : i \in DOMAIN f}

\* C1: every batch that sequential bucketing has yielded holds a number of
\* records that, times the largest length its records had at admission, is at
\* most the budget.
C1_BudgetRespected ==
    sort_by = "seq" =>
        \A i \in 1..Len(out) :
            Len(out[i].ids) * SeqMax(out[i].lens) <= batch_size

\* A batch of two or more records that fills the budget exactly was yielded.
C1_Witness ==
    /\ sort_by = "seq"
    /\ passNo = 2
    /\ ~prev.done
    /\ \E i \in 1..Len(out) :
         /\ Len(out[i].ids) >= 2
         /\ Len(out[i].ids) * SeqMax(out[i].lens) = batch_size

\* C2: a record with no empty side whose length exceeds the budget stops the
\* pass with the overflow error when it is reached: the sequential generator
\* never moves past it and never completes, the equal-length strategy yields
\* nothing, and no batch or bucket of either strategy holds such a record.
C2_OverflowAborts ==
    /\ \A q \in 1..Len(orig) :
         (NonEmptyRec(orig[q]) /\ RecLen(orig[q]) > batch_size) =>
            IF sort_by = "seq"
            THEN /\ pos <= q
                 /\ bpc \in {"start", "run", "error"}
                 /\ (pos = q /\ bpc # "start") => (bpc = "run" \/ err = "overflow")
                 /\ \A i \in 1..Len(out) : orig[q].id \notin Range(out[i].ids)
                 /\ \A i \in 1..Len(batch) : batch[i].ix # q
            ELSE /\ bpc = "start" \/ (bpc = "error" /\ err = "overflow")
                 /\ out = <<>>
                 /\ computed = <<>>
    /\ \A i \in 1..Len(out) : \A n \in 1..Len(out[i].lens) : out[i].lens[n] <= batch_size
    /\ \A i \in 1..Len(batch) : batch[i].len <= batch_size
    /\ \A i \in 1..Len(computed) :
         \A n \in 1..Len(computed[i]) : computed[i][n].len <= batch_size

\* The sequential pass was stopped by a too long record that arrived while
\* the current batch held records and after a batch had been yielded.
C2_Witness ==
    /\ sort_by = "seq"
    /\ passNo = 2
    /\ ~prev.done
    /\ bpc = "error"
    /\ err = "overflow"
    /\ Len(batch) > 0
    /\ Len(out) > 0
    /\ RecLen(orig[pos]) > batch_size

\* C3: when a sequential pass has completed, the yielded batches, in emission
\* order, hold exactly the records with no empty side, each once and in store
\* order, and no yielded batch is empty.
C3_PassPartitions ==
    (sort_by = "seq" /\ bpc = "done") =>
        /\ ConcatIds(out) = Kept(orig, 1)
        /\ \A i \in 1..Len(out) : Len(out[i].ids) > 0

\* A completed sequential pass with a flushed batch, a trailing batch and a
\* skipped record.
C3_Witness ==
    /\ sort_by = "seq"
    /\ passNo = 2
    /\ ~prev.done
    /\ bpc = "done"
    /\ Len(out) >= 2
    /\ \E p \in 1..Len(orig) : ~NonEmptyRec(orig[p])

\* The ids of the buckets of _make_eq_len_batch_ids, one list per bucket, and
\* all of them in bucket order.
BucketIds(bs) == [i \in 1..Len(bs) |-> [n \in 1..Len(bs[i]) |-> bs[i][n].ix]]

RECURSIVE Flatten(_)
Flatten(ss) == IF Len(ss) = 0 THEN <<>> ELSE ss[1] \o Flatten(Tail(ss))

\* C7: once a pass of equal-length randomized bucketing has yielded, (1) the
\* computed buckets, read in order, list every record with no empty side
\* exactly once, by target length descending; (2) each bucket has count times
\* largest max(x_len, y_len) at most the budget; (3) the shuffled list is a
\* reordering of the computed buckets; (4) the n-th batch yielded holds exactly
\* the ids of the n-th shuffled bucket, and a completed pass has yielded all.
C7_EqLenBuckets ==
    (sort_by = "eq_len_rand_batch" /\ bpc \in {"run", "done"}) =>
        LET flat == Flatten(BucketIds(computed))
        IN  /\ Range(flat) = Range(Kept(orig, 1))
            /\ Len(flat) = Len(Kept(orig, 1))
            /\ \A i, j \in 1..Len(flat) :
                 (i < j) => Len(orig[flat[i]].y) >= Len(orig[flat[j]].y)
            /\ \A i \in 1..Len(computed) :
                 /\ Len(computed[i]) > 0
                 /\ \A n \in 1..Len(computed[i]) :
                      computed[i][n].len = RecLen(orig[computed[i][n].ix])
                 /\ Len(computed[i])
                      * SeqMax([n \in 1..Len(computed[i]) |-> computed[i][n].len])
                        <= batch_size
            /\ \E f \in Perms(Len(computed)) :
                 buckets = [i \in 1..Len(computed) |-> computed[f[i]]]
            /\ Len(out) <= Len(buckets)
            /\ \A i \in 1..Len(out) :
                 /\ Range(out[i].ids) = Range(BucketIds(buckets)[i])
                 /\ Len(out[i].ids) = Len(buckets[i])
            /\ (bpc = "done") => (Len(out) = Len(buckets))

\* A completed equal-length pass over an indexed store whose buckets came out
\* in another order than computed, one of them with two records.
C7_Witness ==
    /\ sort_by = "eq_len_rand_batch"
    /\ passNo = 2
    /\ ~prev.done
    /\ ~keep_in_mem
    /\ bpc = "done"
    /\ Len(out) >= 2
    /\ buckets # computed
    /\ \E i \in 1..Len(out) : Len(out[i].ids) >= 2

\* C9: a second pass of read_all over the same in-memory record list, after
\* a first pass that ran to its end, does not fail, and when it has completed
\* it has yielded the same batches, with the same record ids, as the first.
C9_PassesRepeat ==
    (sort_by = "seq" /\ keep_in_mem /\ passNo = 2 /\ prev.done) =>
        /\ bpc # "error"
        /\ (bpc = "done") => (IdLists(out) = IdLists(prev.out))

\* C10: every Batch a pass has yielded has rows times padded width at most the
\* budget, for x_seqs and for y_seqs; and the pass over the records of the
\* example with budget 6 yields one batch with x_seqs of shape [2, 2] and
\* y_seqs of shape [2, 3].
C10_BuiltWithinBudget ==
    /\ \A i \in 1..Len(out) :
         /\ Shape(out[i].x_seqs)[1] * Shape(out[i].x_seqs)[2] <= batch_size
         /\ Shape(out[i].y_seqs)[1] * Shape(out[i].y_seqs)[2] <= batch_size
    /\ (orig = ExampleStore /\ batch_size = 6 /\ passNo = 1 /\ bpc = "done") =>
         /\ Len(out) = 1
         /\ Shape(out[1].x_seqs) = <<2, 2>>
         /\ Shape(out[1].y_seqs) = <<2, 3>>

\* C8: a request with an id that the store does not hold ends in an error.
C8_MissingIdFails ==
    (ipc = "answered" /\ \E i \in 1..Len(req) : ~HasId(data, req[i])) => ~res.ok

\* C4: the number of batches handed to the consumer never exceeds the target.
C4_NeverBeyondTotal == handed <= total

\* The quotient of a by b, rounded up.
CeilDiv(a, b) == (a + b - 1) \div b

\* C5: with k >= 1 batches per pass and a target above k, the first iteration
\* of a fresh LoopingIterable yields, as its i-th batch, batch ((i-1) mod k)+1
\* of pass ceil(i/k) of the source; it never yields more than the target, and
\* when it has ended it has yielded exactly the target and has started
\* ceil(target/k) passes of the source.
C5_LoopWraps ==
    (iters = 1 /\ per_pass >= 1 /\ total > per_pass /\ lpc # "idle") =>
        /\ \A i \in 1..Len(emitted) :
             emitted[i] = <<CeilDiv(i, per_pass), ((i - 1) % per_pass) + 1>>
        /\ Len(emitted) <= total
        /\ (lpc = "done") =>
             (Len(emitted) = total /\ npass = CeilDiv(total, per_pass))

\* A first iteration that ended in the middle of a pass of the source, after
\* the source had been exhausted at least once.
C5_Witness ==
    /\ iters = 1
    /\ lpc = "done"
    /\ per_pass >= 2
    /\ total > per_pass
    /\ total % per_pass # 0
    /\ Len(emitted) = total

\* C6: an iteration of a LoopingIterable that has started eventually ends.
C6_IterationEnds == (lpc = "while") ~> (lpc \in {"done", "idle"})

(***************************************************************************)
(* Properties of the Batch builder.                                        *)
(***************************************************************************)
\* Every record has a y, or none has.
UniformY(recs) ==
    \/ \A i \in 1..Len(recs) : recs[i].y = None
    \/ \A i \in 1..Len(recs) : recs[i].y # None

HasY(recs) == Len(recs) > 0 /\ \A i \in 1..Len(recs) : recs[i].y # None

\* row is seq, then the padding value up to the width w.
LiveRow(row, seq, w) ==
    /\ Len(row) = w
    /\ \A c \in 1..w : row[c] = IF c <= Len(seq) THEN seq[c] ELSE PadVal

\* m is the matrix of the sequences seqs, one row per sequence.
BatchMajor(m, seqs) ==
    LET w == SeqMax([i \in 1..Len(seqs) |-> Len(seqs[i])])
    IN  /\ Len(m) = Len(seqs)
        /\ \A i \in 1..Len(seqs) : LiveRow(m[i], seqs[i], w)

\* m is the matrix of the sequences seqs, one column per sequence.
SeqMajor(m, seqs) ==
    LET w == SeqMax([i \in 1..Len(seqs) |-> Len(seqs[i])])
    IN  /\ Len(m) = w
        /\ \A c \in 1..w :
             /\ Len(m[c]) = Len(seqs)
             /\ \A i \in 1..Len(seqs) :
                  m[c][i] = IF c <= Len(seqs[i]) THEN seqs[i][c] ELSE PadVal

\* The alignment configuration cfg is valid for the sequence seq.
ValidSeq(seq, bos, eos) ==
    /\ Len(seq) > 0
    /\ bos \/ seq[1] # BosVal
    /\ eos \/ seq[Len(seq)] # EosVal

ValidAlignment(recs, cfg) ==
    /\ \A i \in 1..Len(recs) : ValidSeq(recs[i].x, cfg.add_bos_x, cfg.add_eos_x)
    /\ HasY(recs) =>
         \A i \in 1..Len(recs) : ValidSeq(recs[i].y, cfg.add_bos_y, cfg.add_eos_y)

\* C11 (as stated): after a Batch was built from a non-empty list with uniform
\* y-presence, x_seqs (and y_seqs when y is present) has one row per record,
\* row i being the sequence of record i of the list, then padding, as wide as
\* the longest sequence; the length vectors hold the lengths of the sequences.
C11_RowPerRecord ==
    (builds >= 1 /\ bres.ok /\ UniformY(brecs)) =>
        /\ BatchMajor(bres.x_seqs, [i \in 1..Len(brecs) |-> brecs[i].x])
        /\ bres.x_len = [i \in 1..Len(brecs) |-> Len(brecs[i].x)]
        /\ bres.has_y = HasY(brecs)
        /\ bres.has_y =>
             /\ BatchMajor(bres.y_seqs, [i \in 1..Len(brecs) |-> brecs[i].y])
             /\ bres.y_len = [i \in 1..Len(brecs) |-> Len(brecs[i].y)]

\* C11 (amended): a non-empty list with uniform y-presence and a valid
\* alignment configuration builds; the matrices are as stated for the records
\* in the order the Batch holds them (sorted stably by descending len(x) when
\* sort_dec is set), batch-major when batch_first is set and sequence-major
\* (one column per record) otherwise.
C11_RowPerBuiltRecord ==
    /\ (builds >= 1 /\ Len(bprev) > 0 /\ UniformY(bprev) /\ ValidAlignment(bprev, bcfg))
         => bres.ok
    /\ (builds >= 1 /\ bres.ok /\ UniformY(brecs)) =>
         LET rows == IF bcfg.sort_dec THEN SortDec(brecs) ELSE brecs
             xs == [i \in 1..Len(rows) |-> rows[i].x]
             ys == [i \in 1..Len(rows) |-> rows[i].y]
         IN  /\ IF bcfg.batch_first THEN BatchMajor(bres.x_seqs, xs)
                                    ELSE SeqMajor(bres.x_seqs, xs)
             /\ bres.x_len = [i \in 1..Len(rows) |-> Len(xs[i])]
             /\ bres.has_y = HasY(brecs)
             /\ bres.has_y =>
                  /\ IF bcfg.batch_first THEN BatchMajor(bres.y_seqs, ys)
                                         ELSE SeqMajor(bres.y_seqs, ys)
                  /\ bres.y_len = [i \in 1..Len(rows) |-> Len(ys[i])]

\* A Batch with y was built sequence-major from two records that the sort put
\* in another order, with padding on both sides.
C11_Witness ==
    /\ builds = 1
    /\ bres.ok
    /\ bres.has_y
    /\ bcfg.sort_dec
    /\ ~bcfg.batch_first
    /\ Len(brecs) = 2
    /\ Len(brecs[1].x) < Len(brecs[2].x)
    /\ Len(brecs[1].y) # Len(brecs[2].y)

\* C12: a Batch built with add_bos and add_eos set on a side, from records
\* that a Batch with the same arguments has processed before, leaves every
\* sequence of that side as it was; each such sequence starts with one BOS
\* and ends with one EOS.
C12_InsertionIdempotent ==
    (builds = 2) =>
        /\ (bcfg.add_bos_x /\ bcfg.add_eos_x) =>
             \A i \in 1..Len(brecs) :
                 /\ brecs[i].x = bprev[i].x
                 /\ bres.ok => /\ brecs[i].x[1] = BosVal
                               /\ brecs[i].x[Len(brecs[i].x)] = EosVal
        /\ (bcfg.add_bos_y /\ bcfg.add_eos_y) =>
             \A i \in 1..Len(brecs) :
                 /\ brecs[i].y = bprev[i].y
                 /\ (bres.ok /\ bres.has_y) =>
                        /\ brecs[i].y[1] = BosVal
                        /\ brecs[i].y[Len(brecs[i].y)] = EosVal

\* The second Batch was built, with BOS and EOS on both sides, from records
\* that got both inserted by the first.
C12_Witness ==
    /\ builds = 2
    /\ bres.ok
    /\ bres.has_y
    /\ bcfg.add_bos_x /\ bcfg.add_eos_x /\ bcfg.add_bos_y /\ bcfg.add_eos_y
    /\ \E i \in 1..Len(brecs) :
         /\ Len(brecs[i].x) = MaxSeqLen + 2
         /\ Len(brecs[i].y) = MaxSeqLen + 2

\* A sequence of the x side of recs starts with the BOS value although bos is
\* false on that side, or ends with the EOS value although eos is false.
BadX(recs, cfg) ==
    \E i \in 1..Len(recs) :
        /\ Len(recs[i].x) > 0
        /\ \/ ~cfg.add_bos_x /\ recs[i].x[1] = BosVal
           \/ ~cfg.add_eos_x /\ recs[i].x[Len(recs[i].x)] = EosVal

\* The same for the y side.
BadY(recs, cfg) ==
    \E i \in 1..Len(recs) :
        /\ recs[i].y # None
        /\ Len(recs[i].y) > 0
        /\ \/ ~cfg.add_bos_y /\ recs[i].y[1] = BosVal
           \/ ~cfg.add_eos_y /\ recs[i].y[Len(recs[i].y)] = EosVal

\* A Batch built with bos and eos false on a side has left the sequences of
\* that side as they were.
SidesUntouched ==
    /\ (~bcfg.add_bos_x /\ ~bcfg.add_eos_x) =>
         \A i \in 1..Len(bprev) : brecs[i].x = bprev[i].x
    /\ (~bcfg.add_bos_y /\ ~bcfg.add_eos_y) =>
         \A i \in 1..Len(bprev) : brecs[i].y = bprev[i].y

\* C13 (as stated): with bos false on a side, building fails if a sequence of
\* that side, x or y, starts with the BOS value, and with eos false if one
\* ends with the EOS value; the failure is the failed assertion when no
\* sequence of the list is empty.  A Batch built with bos and eos false on a
\* side leaves the sequences of that side unchanged.
C13_AlignmentEnforced ==
    (builds >= 1) =>
        LET bad == BadX(bprev, bcfg) \/ BadY(bprev, bcfg)
            noempty == \A i \in 1..Len(bprev) :
                          Len(bprev[i].x) > 0 /\ Len(bprev[i].y) > 0
        IN  /\ bad => ~bres.ok
            /\ (bad /\ noempty) => bres.err = "AssertionError"
            /\ SidesUntouched

\* C13 (amended): with bos false on a side, building fails if a sequence of
\* that side starts with the BOS value, and with eos false if one ends with
\* the EOS value, on the x side of every list and on the y side of a list
\* whose first record, in the order the Batch holds the list, has a y.  The
\* failure is the failed assertion when no x is empty and, for the y side,
\* every record has a y that is not empty.  A Batch built with bos and eos
\* false on a side leaves the sequences of that side unchanged.
C13_AlignmentEnforcedWhereChecked ==
    (builds >= 1) =>
        LET n == Len(bprev)
            held == IF bcfg.sort_dec THEN SortDec(brecs) ELSE brecs
            xbad == BadX(bprev, bcfg)
            ybad == n > 0 /\ held[1].y # None /\ BadY(bprev, bcfg)
            allx == \A i \in 1..n : Len(bprev[i].x) > 0
            ally == \A i \in 1..n : bprev[i].y # None /\ Len(bprev[i].y) > 0
        IN  /\ (xbad \/ ybad) => ~bres.ok
            /\ (xbad /\ allx) => bres.err = "AssertionError"
            /\ (ybad /\ allx /\ ally) => bres.err = "AssertionError"
            /\ SidesUntouched

\* Building failed on the assertion because a y sequence of the second record
\* starts with the BOS value although add_bos_y is false, after the x side
\* had passed.
C13_Witness ==
    /\ builds = 1
    /\ ~bres.ok
    /\ bres.err = "AssertionError"
    /\ ~bcfg.add_bos_y
    /\ Len(bprev) = 2
    /\ HasY(bprev)
    /\ ValidSeq(bprev[1].x, bcfg.add_bos_x, bcfg.add_eos_x)
    /\ ValidSeq(bprev[2].x, bcfg.add_bos_x, bcfg.add_eos_x)
    /\ ValidSeq(bprev[1].y, bcfg.add_bos_y, bcfg.add_eos_y)
    /\ bprev[2].y[1] = BosVal

\* C14: a BatchIterable asked for a sort_by over a flat file never gets past
\* its construction: __init__ raises, no pass starts and no batch is yielded.
C14_FlatFileSortRejected ==
    (backend = "tsv" /\ sort_by_arg \notin {"None", ""}) =>
        /\ bpc \in {"new", "rejected"}
        /\ out = <<>>
        /\ (bpc = "rejected") => (err \in {"Exception", "AssertionError"})

\* Equal-length bucketing was asked over an existing flat file and __init__
\* raised the exception.
C14_Witness ==
    /\ backend = "tsv"
    /\ path_exists
    /\ sort_by_arg = "eq_len_rand_batch"
    /\ bpc = "rejected"
    /\ err = "Exception"
    /\ Len(data) > 0

(***************************************************************************)
(* Properties of the indexed store.                                        *)
(***************************************************************************)
\* How often e occurs in the list q.
Occurrences(q, e) == Cardinality({i \in 1..Len(q) : q[i] = e})

\* The lists a and b hold the same elements, each as often.
SameBag(a, b) ==
    /\ Len(a) = Len(b)
    /\ \A i \in 1..Len(a) : Occurrences(a, a[i]) = Occurrences(b, a[i])

\* The (x, y) pairs of a list of records.
Pairs(recs) == [i \in 1..Len(recs) |-> [x |-> recs[i].x, y |-> recs[i].y]]

\* C15 (as stated): the pairs of integer sequences written to the store by a
\* write that completed are
\* exactly the pairs that iterating the store (default maximum lengths)
\* yields, order ignored.
C15_RoundTrip ==
    (rpc = "read" /\ wpc = "done" /\ rcfg.max_len = DefaultMaxLen
       /\ \A i \in 1..Len(wrecs) : wrecs[i].y # None) =>
        /\ rd.ok
        /\ SameBag(Pairs(rd.recs), wrecs)

\* C15 (amended): the round trip of a completed write is exact for the pairs whose two sequences
\* are non-empty and no longer than the maximum lengths of the reading store;
\* the records read have the ids 1..n, each once.
C15_RoundTripNonEmpty ==
    (rpc = "read" /\ wpc = "done"
       /\ \A i \in 1..Len(wrecs) :
            /\ wrecs[i].y # None
            /\ Len(wrecs[i].x) \in 1..rcfg.max_len
            /\ Len(wrecs[i].y) \in 1..rcfg.max_len) =>
        /\ rd.ok
        /\ SameBag(Pairs(rd.recs), wrecs)
        /\ \A i \in 1..Len(rd.recs) :
             /\ rd.recs[i].id \in 1..Len(wrecs)
             /\ Pairs(rd.recs)[i] = wrecs[rd.recs[i].id]
             /\ \A j \in 1..Len(rd.recs) : (rd.recs[i].id = rd.recs[j].id) => (i = j)

\* Two different pairs were written over an old store through a temporary
\* path and read back in the other order.
C15_Witness ==
    /\ rpc = "read"
    /\ wpc = "done"
    /\ rd.ok
    /\ use_tmp
    /\ old_rows # <<>>
    /\ Len(wrecs) = 2
    /\ Len(rd.recs) = 2
    /\ wrecs[1] # wrecs[2]
    /\ rd.recs[1].id = 2
    /\ Len(wrecs[1].x) = MaxSeqLen

\* C16: when write over an existing store was interrupted, the path holds
\* the complete old store or the complete new one.
C16_PathNeverPartial ==
    (wpc = "interrupted" /\ old_rows # <<>>) =>
        /\ path_file.exists
        /\ path_file.table
        /\ path_file.rows \in {old_rows, InsertAll(<<>>, wrecs)}

(***************************************************************************)
(* Properties of the in-memory cache.                                      *)
(***************************************************************************)
\* C17: InMemoryData(stream) fails exactly when two records of the stream
\* have the same id; when it succeeds, data is the stream, the id map has one
\* entry per record, the entry of a record's id is the index of that record
\* in data, and len() is the number of records.
C17_UniqueIdsOrFail ==
    (mpc \in {"loaded", "failed"}) =>
        /\ (mpc = "failed") <=>
             (\E i, j \in 1..Len(stream) : i < j /\ stream[i].id = stream[j].id)
        /\ (mpc = "loaded") =>
             /\ mres.data = stream
             /\ Len(mres.data) = Len(stream)
             /\ Len(mres.ids) = Len(stream)
             /\ \A i \in 1..Len(stream) :
                  /\ Cardinality({k \in 1..Len(mres.ids) :
                                     mres.ids[k].id = stream[i].id}) = 1
                  /\ \A k \in 1..Len(mres.ids) :
                       (mres.ids[k].id = stream[i].id) =>
                           /\ mres.ids[k].ix = i - 1
                           /\ mres.data[mres.ids[k].ix + 1] = stream[i]

\* A cache was built from a full stream whose ids are not in order.
C17_Witness ==
    /\ mpc = "loaded"
    /\ Len(stream) = MaxStream
    /\ stream[1].id > stream[2].id
    /\ Len(mres.ids) = MaxStream

(***************************************************************************)
(* Properties of the flat-file store.                                      *)
(***************************************************************************)
\* C18: reading a file never raises on a line with an empty side, whether
\* the line has a y field or not, and no pass presents a record with an
\* empty side.
C18_EmptySideDropped ==
    /\ terr # "TypeError"
    /\ \A p \in 1..Len(tpasses) :
         /\ tpasses[p].err # "TypeError"
         /\ \A i \in 1..Len(tpasses[p].recs) :
              /\ Len(tpasses[p].recs[i].x) > 0
              /\ tpasses[p].recs[i].y # None => Len(tpasses[p].recs[i].y) > 0

\* C19: no pass over a TSVData with shuffle false and longest_first true
\* raises, and every pass that ended presented the records by non-increasing
\* sort key (target length, source length when there is no target), the same
\* sequence as every other pass that ended: the records that reading the
\* file keeps, and 5, 3, 2 for the example file, while the file is the one
\* the store was constructed over.
C19_LongestFirstEveryPass ==
    (tpc = "ready" /\ ~tcfg.shuffle /\ tcfg.longest_first) =>
        \A p \in 1..Len(tpasses) :
            LET recs == tpasses[p].recs
            IN  /\ tpasses[p].ok
                /\ (tpasses[p].state = "done") =>
                     /\ \A q \in 1..Len(tpasses) :
                          (tpasses[q].state = "done") => (recs = tpasses[q].recs)
                     /\ \A i, j \in 1..Len(recs) :
                          (i < j) => sort_key(recs[i]) >= sort_key(recs[j])
                     /\ (twrites = 0) =>
                          SameBag(recs, TSVData_read_all(tlines, 1, tcfg.truncate,
                                                         tcfg.max_len, <<>>).recs)
                     /\ (tlines = ExampleFile) =>
                          ([i \in 1..Len(recs) |-> Len(recs[i].x)] = <<5, 3, 2>>)

(***************************************************************************)
(* Properties of the parallel preprocessor.                                *)
(***************************************************************************)
\* C20: when the two files have different numbers of lines, the call of
\* read_raw_parallel_recs_parallel ends in the exception, and the store
\* writer is handed no record.
C20_MismatchFatalBeforeWrite ==
    (pkind = "pool" /\ Len(src_lines) # Len(tgt_lines)) =>
        /\ ppc \in {"new", "failed"}
        /\ (ppc = "failed") => (perr = "AttributeError")
        /\ written = <<>>

\* The call failed on a target file one line short although the pairs before
\* the end of the shorter file were records to keep.
C20_Witness ==
    /\ pkind = "pool"
    /\ ppc = "failed"
    /\ Len(src_lines) = MaxLines
    /\ Len(tgt_lines) = MaxLines - 1
    /\ \A i \in 1..Len(tgt_lines) :
         /\ RawPair(<<src_lines[i], tgt_lines[i]>>) = "pair"
         /\ TokenizerTask(<<src_lines[i], tgt_lines[i]>>, pcfg).keep
    /\ written = <<>>

(***************************************************************************)
(* Properties of a BatchIterable over an indexed store.                    *)
(***************************************************************************)
\* Every row of the table has a y.
AllHaveY == \A i \in 1..Len(db_rows) : ~db_rows[i].y.null

\* The records the iteration of the store delivers from the table.
Survivors ==
    SqliteFile_stream(db_rows, db_cfg.max_len, db_cfg.max_len, db_cfg.truncate, <<>>).recs

\* The record with this id was batched in the pass.
Batched(id) == \E b \in 1..Len(out) : \E n \in 1..Len(out[b].ids) : out[b].ids[n] = id

\* C21: in a completed pass of the equal-length randomized path over an
\* indexed store whose rows all have a y, the records batched are the records
\* the iteration of the store delivers: each batched record is one of them,
\* its rows in the matrices of the batch holding its sequences as the iteration
\* delivers them (truncated if it truncates them), and each of them is batched.
C21_EqLenBatchesSurvivors ==
    (sort_by = "eq_len_rand_batch" /\ bpc = "done" /\ Len(db_rows) > 0 /\ AllHaveY) =>
        /\ \A b \in 1..Len(out) : \A n \in 1..Len(out[b].ids) :
             \E k \in 1..Len(Survivors) :
                /\ Survivors[k].id = out[b].ids[n]
                /\ LiveRow(out[b].x_seqs[n], EosAppend(Survivors[k].x),
                           Len(out[b].x_seqs[n]))
                /\ LiveRow(out[b].y_seqs[n], EosAppend(Survivors[k].y),
                           Len(out[b].y_seqs[n]))
        /\ \A k \in 1..Len(Survivors) : Batched(Survivors[k].id)

\* The row has both sides, none of them empty.
BothSides(row) == ~row.y.null /\ row.x_len > 0 /\ row.y_len > 0

\* C22: a pass of sequential bucketing over an indexed store does not end in
\* an exception of the iteration of the store, no row with a missing side is
\* in a batch, and the batches of a completed pass are those that bucketing
\* makes of the rows delivered with the rows with a missing side taken out.
C22_MissingSideSkipped ==
    (sort_by = "seq" /\ Len(db_rows) > 0) =>
        /\ err # "TypeError"
        /\ \A i \in 1..Len(db_rows) : Batched(db_rows[i].id) => BothSides(db_rows[i])
        /\ (bpc = "done") =>
              \A i \in 1..Len(qrows) :
                 (BothSides(qrows[i]) /\ SqliteFile_row(qrows[i], db_cfg.max_len,
                                             db_cfg.max_len, db_cfg.truncate).kind = "rec")
                    => Batched(qrows[i].id)

(***************************************************************************)
(* Properties of the passes of the flat-file store.                        *)
(***************************************************************************)
\* C23: with longest_first, of the passes that ended, the first one started
\* presented the list sorted by non-increasing sort key, and every later one
\* presented the list as it was after its shuffle, without sorting it again:
\* the list of the pass before when shuffle is false, the re-shuffled list
\* when shuffle is true.
C23_SortFirstPassOnly ==
    (tpc = "ready" /\ tcfg.longest_first) =>
        \A p \in 1..Len(tpasses) :
            (tpasses[p].state = "done") =>
                IF p = 1 THEN tpasses[p].recs = sorted_desc(tpasses[p].shuffled)
                ELSE /\ tpasses[p].recs = tpasses[p].shuffled
                     /\ (~tcfg.shuffle /\ tpasses[p - 1].state = "done")
                          => (tpasses[p].recs = tpasses[p - 1].recs)

(***************************************************************************)
(* Greedy maximality of sequential bucketing.                              *)
(***************************************************************************)
\* C24: of every two consecutive batches that a pass of sequential bucketing
\* has yielded, the earlier one could not have admitted the first record of
\* the later one: its size plus one, times the larger of its largest length
\* and the length of that record, exceeds the budget.
C24_GreedyMaximal ==
    sort_by = "seq" =>
        \A i \in 1..(Len(out) - 1) :
            (Len(out[i].ids) + 1) * Max(SeqMax(out[i].lens), out[i + 1].lens[1])
                > batch_size

\* A batch of two records was closed by a record shorter than its largest,
\* which then opened the next batch.
C24_Witness ==
    /\ sort_by = "seq"
    /\ passNo = 2
    /\ ~prev.done
    /\ Len(out) >= 2
    /\ Len(out[1].ids) >= 2
    /\ out[2].lens[1] < SeqMax(out[1].lens)
    /\ out[2].lens[1] <= batch_size \div (Len(out[1].ids) + 1)

(***************************************************************************)
(* Equivalence of the two preprocessors.                                   *)
(***************************************************************************)
\* The line pairs of the two files.
RawPairs == ZipLongest(src_lines, tgt_lines)

\* What a consumer of read_raw_parallel_recs gets from pair i on: [ok, recs],
\* recs the records yielded before the end or the exception.
RECURSIVE LazyRun(_, _, _, _)
LazyRun(pairs, i, cfg, acc) ==
    LET r == lazy_next(pairs, i, cfg)
    IN  IF r.kind = "rec" THEN LazyRun(pairs, r.pos, cfg, Append(acc, r.rec))
        ELSE [ok |-> r.kind = "stop", recs |-> acc]

\* What a consumer of read_raw_parallel_recs_parallel gets: [ok, recs].
PoolRun(pairs, cfg) == pool_map(pairs, 1, cfg, <<>>)

\* C25: a run of either preprocessor that has ended has handed over the
\* records, in the order, that the other one hands over for the same files,
\* limits and truncate flag, and has ended the same way.
C25_PreprocessorsAgree ==
    (ppc \in {"done", "failed"}) =>
        LET other == IF pkind = "pool" THEN LazyRun(RawPairs, 1, pcfg, <<>>)
                     ELSE PoolRun(RawPairs, pcfg)
        IN  /\ written = other.recs
            /\ (ppc = "done") = other.ok

(***************************************************************************)
(* Conservation of the records of an in-memory flat-file store.            *)
(***************************************************************************)
\* The records that reading the file keeps.
Materialized == TSVData_read_all(tlines, 1, tcfg.truncate, tcfg.max_len, <<>>).recs

\* C26: for a constructed TSVData that holds its records in memory, whatever
\* shuffle and longest_first are, the list held is a permutation of the
\* records materialized at construction (those that reading the file keeps,
\* while the file is the one of construction), no pass presented a record
\* twice, every pass that ended presented each of them exactly once, and the
\* length reported is their number.
C26_RecordsConserved ==
    (tpc = "ready" /\ InMem(tcfg)) =>
        /\ len_ = Len(mem)
        /\ (twrites = 0) => SameBag(mem, Materialized)
        /\ \A p \in 1..Len(tpasses) :
             /\ \A i, j \in 1..Len(tpasses[p].recs) :
                  (i # j) => (tpasses[p].recs[i] # tpasses[p].recs[j])
             /\ (tpasses[p].state = "done") => SameBag(tpasses[p].recs, mem)

====
